---- MODULE Spec2Model ----
(***************************************************************************)
(* A model of the search-result cache (src/cache/search_cache.py) and of   *)
(* the internet-search tool built on it (src/tools/internet_search.py).    *)
(*                                                                         *)
(* Strings are sequences of one-character strings.  A cached result text   *)
(* is a non-empty sequence; Python's None is the empty sequence.           *)
(* Time is counted in hours, the unit of ttl_hours.                        *)
(***************************************************************************)
EXTENDS Integers, Sequences, FiniteSets, TLC

\* ------------------------------------------------------------------ bounds

\* The clock runs from 0 to MaxTime hours.
MaxTime == 3
\* ttl_hours is drawn from 0..MaxTtlHours.
MaxTtlHours == 2
\* Timestamps found in a cache file at start-up are at most MaxAge hours old.
MaxAge == 2
\* The search tool is called at most MaxLookups times.
MaxLookups == 3
\* The widest table built header by header, and the largest max_years and
\* max_quarters.
MaxCols == 4
MaxKeep == 3
\* The longest company name given to normalize_company_name, in characters.
MaxNameLen == 9
\* The most body rows of a table.
MaxRows == 2
\* The most calls of extract_financial_data one after another.
MaxCalls == 3
\* max_context is drawn from 0..MaxContext, and the title of the page given
\* to perform_analysis has at most MaxTitle letters.
MaxContext == 21
MaxTitle == 13

\* ----------------------------------------------------------------- strings

LowerChars == <<"a", "b", "c", "d", "e", "i", "l", "m", "n", "o", "p", "r", "t">>
UpperChars == <<"A", "B", "C", "D", "E", "I", "L", "M", "N", "O", "P", "R", "T">>

\* str.upper() on one character.
UpperChar(c) ==
    IF \E i \in 1..Len(LowerChars) : LowerChars[i] = c
    THEN UpperChars[CHOOSE i \in 1..Len(LowerChars) : LowerChars[i] = c]
    ELSE c

\* str.upper()
StrUpper(s) == [i \in 1..Len(s) |-> UpperChar(s[i])]

IsSpace(c) == c = " "

RECURSIVE LStrip(_)
LStrip(s) ==
    IF s # <<>> /\ IsSpace(Head(s)) THEN LStrip(Tail(s)) ELSE s

RECURSIVE RStrip(_)
RStrip(s) ==
    IF s # <<>> /\ IsSpace(s[Len(s)]) THEN RStrip(SubSeq(s, 1, Len(s) - 1)) ELSE s

\* str.strip()
StrStrip(s) == RStrip(LStrip(s))

StartsWith(s, pat) ==
    /\ Len(pat) <= Len(s)
    /\ SubSeq(s, 1, Len(pat)) = pat

\* str.replace(pat, ""): every non-overlapping occurrence, left to right.
RECURSIVE StrRemove(_, _)
StrRemove(s, pat) ==
    IF Len(s) < Len(pat) THEN s
    ELSE IF StartsWith(s, pat) THEN StrRemove(SubSeq(s, Len(pat) + 1, Len(s)), pat)
    ELSE <<Head(s)>> \o StrRemove(Tail(s), pat)

SfxLimited == <<" ", "L", "I", "M", "I", "T", "E", "D">>
SfxLtd == <<" ", "L", "T", "D">>
SfxIncorporated == <<" ", "I", "N", "C", "O", "R", "P", "O", "R", "A", "T", "E", "D">>
SfxInc == <<" ", "I", "N", "C">>

\* normalize_company_name
normalize_company_name(company_name) ==
    IF company_name = <<>> THEN <<>>
    ELSE LET n0 == StrUpper(StrStrip(company_name))
             n1 == StrRemove(StrRemove(n0, SfxLimited), SfxLtd)
             n2 == StrRemove(StrRemove(n1, SfxIncorporated), SfxInc)
         IN  StrStrip(n2)

\* ------------------------------------------------------------ values, JSON

\* Python's None as a result, and the empty dict as a get_all result.
Miss == <<>>
EmptyDict == <<>>

\* datetime.isoformat() of the time t, and datetime.fromisoformat() back.
IsoFormat(t) == <<"iso", t>>
IsIso(timestamp_str) == Len(timestamp_str) = 2 /\ timestamp_str[1] = "iso"
FromIso(timestamp_str) == timestamp_str[2]
\* A "timestamp" that fromisoformat() rejects, and a missing or empty one.
BadTimestamp == <<"garbage">>
NoTimestamp == <<>>

\* A dict {query: result} in insertion order: a sequence of <<query, result>>.
DictHas(d, q) == \E i \in 1..Len(d) : d[i][1] = q
DictGet(d, q) == d[CHOOSE i \in 1..Len(d) : d[i][1] = q][2]
DictSet(d, q, r) ==
    IF DictHas(d, q)
    THEN [i \in 1..Len(d) |-> IF d[i][1] = q THEN <<q, r>> ELSE d[i]]
    ELSE Append(d, <<q, r>>)
DictKeys(d) == {d[i][1] : i \in 1..Len(d)}

\* _cache_data: a function from normalized company names to entries.
EmptyCache == <<>>
Entry(timestamp_str, searches) == [timestamp |-> timestamp_str, searches |-> searches]
CacheDel(data, k) == [x \in DOMAIN data \ {k} |-> data[x]]
CacheSet(data, k, e) == [x \in DOMAIN data \cup {k} |-> IF x = k THEN e ELSE data[x]]

\* A file: whether it exists, and its content.  The JSON text of a mapping is
\* written as NChunks chunks; a content is the first `written` chunks of the
\* text of `data`, the whole text when written = NChunks.
NChunks == 2
TextPrefix(data, n) == [data |-> IF n = 0 THEN EmptyCache ELSE data, written |-> n]
EmptyText == TextPrefix(EmptyCache, 0)
NoFile == [exists |-> FALSE, content |-> EmptyText]
FileOf(content) == [exists |-> TRUE, content |-> content]
\* json.dump(self._cache_data, f)
JsonDump(data) == TextPrefix(data, NChunks)
\* json.load succeeds on one complete text, and raises JSONDecodeError otherwise.
IsCompleteJson(content) == content.written = NChunks
JsonLoads(content) == content.data

\* ------------------------------------------------------- SearchCache, pure

\* A boundary slip: an entry exactly ttl hours old still counts as valid.
IsCacheValid_AgeLeqTtl(timestamp_str, now_, ttl) ==
    IF IsIso(timestamp_str) THEN now_ - FromIso(timestamp_str) <= ttl ELSE FALSE

\* SearchCache._is_cache_valid at the time now
IsCacheValid(timestamp_str, now_, ttl) ==
    IF IsIso(timestamp_str) THEN now_ - FromIso(timestamp_str) < ttl ELSE FALSE

\* "not timestamp_str or not self._is_cache_valid(timestamp_str)"
EntryStale(e, now_, ttl) ==
    e.timestamp = NoTimestamp \/ ~IsCacheValid(e.timestamp, now_, ttl)

\* SearchCache._load_cache
LoadCache(f) ==
    IF ~f.exists THEN EmptyCache
    ELSE IF IsCompleteJson(f.content) THEN JsonLoads(f.content)
    ELSE EmptyCache

\* SearchCache._save_cache without I/O failure: the live file after the call.
SaveCache(en, data, f) ==
    IF ~en THEN f ELSE FileOf(JsonDump(data))

\* The statements of _save_cache at which an OSError can be raised.
SaveFailures == {"open", "write", "replace"}

\* A save that writes the live file itself: a failed write cuts it short.
SaveCacheFailing_InPlace(en, data, f, fail) ==
    IF ~en THEN [file |-> f, raised |-> Miss]
    ELSE IF fail = "open" THEN [file |-> f, raised |-> Miss]
    ELSE IF fail = "write"
         THEN [file |-> FileOf(TextPrefix(data, NChunks - 1)), raised |-> Miss]
    ELSE [file |-> FileOf(JsonDump(data)), raised |-> Miss]

\* SearchCache._save_cache when the statement fail raises OSError: the live
\* file after the call and the exception let out, Miss if none.  Only
\* temp_file is opened and written, replace is the only statement that touches
\* the live file, and "except IOError" catches the error.
SaveCacheFailing(en, data, f, fail) ==
    IF ~en THEN [file |-> f, raised |-> Miss]
    ELSE [file |-> f, raised |-> Miss]

\* The outcome of a cache call: the mapping, the live file, the returned value
\* and the number of _save_cache calls that wrote the file.
Outcome(data, f, val, writes) == [data |-> data, file |-> f, val |-> val, writes |-> writes]

\* A sweep that saves the file once per removed entry instead of once.
CleanupExpiredEntries_SavePerEntry(en, data, f, now_, ttl) ==
    IF ~en THEN Outcome(data, f, Miss, 0)
    ELSE LET expired_companies == {k \in DOMAIN data : EntryStale(data[k], now_, ttl)}
             kept == [k \in DOMAIN data \ expired_companies |-> data[k]]
         IN  IF expired_companies # {}
             THEN Outcome(kept, SaveCache(en, kept, f), Miss, Cardinality(expired_companies))
             ELSE Outcome(kept, f, Miss, 0)

\* SearchCache._cleanup_expired_entries
CleanupExpiredEntries(en, data, f, now_, ttl) ==
    IF ~en THEN Outcome(data, f, Miss, 0)
    ELSE LET expired_companies == {k \in DOMAIN data : EntryStale(data[k], now_, ttl)}
             kept == [k \in DOMAIN data \ expired_companies |-> data[k]]
         IN  IF expired_companies # {}
             THEN Outcome(kept, SaveCache(en, kept, f), Miss, 1)
             ELSE Outcome(kept, f, Miss, 0)

\* A complete JSON text that is not the text of a mapping from keys to entries:
\* an array such as [], or an object whose values are not objects, such as
\* {"A": 1}.
JsonOther(kind) == [data |-> EmptyCache, written |-> NChunks, json |-> kind]
JsonArray == JsonOther("array")
JsonScalarEntry == JsonOther("scalar entry")
\* The content of a file that open() refuses to read (IOError).
Unreadable == [data |-> EmptyCache, written |-> 0, json |-> "unreadable"]
IsMappingJson(content) == "json" \notin DOMAIN content

\* The exception SearchCache.__init__ lets out, Miss if none: _load_cache
\* catches JSONDecodeError and IOError only, and _cleanup_expired_entries calls
\* self._cache_data.items() and company_data.get on whatever json.load gave.
InitCacheRaises(en, f) ==
    IF en /\ f.exists /\ IsCompleteJson(f.content) /\ ~IsMappingJson(f.content)
    THEN <<"AttributeError">>
    ELSE Miss

\* SearchCache.__init__
InitCache(en, f, now_, ttl) ==
    IF en THEN CleanupExpiredEntries(en, LoadCache(f), f, now_, ttl)
    ELSE Outcome(EmptyCache, f, Miss, 0)

\* A get that refreshes the timestamp of the entry it reads.
GetCachedResult_Touch(en, data, f, now_, ttl, company, query) ==
    LET normalized_company == normalize_company_name(company)
    IN  IF ~en THEN Outcome(data, f, Miss, 0)
        ELSE IF normalized_company = <<>> THEN Outcome(data, f, Miss, 0)
        ELSE IF normalized_company \notin DOMAIN data THEN Outcome(data, f, Miss, 0)
        ELSE IF EntryStale(data[normalized_company], now_, ttl)
             THEN LET d2 == CacheDel(data, normalized_company)
                  IN  Outcome(d2, SaveCache(en, d2, f), Miss, 1)
        ELSE LET d2 == CacheSet(data, normalized_company,
                                Entry(IsoFormat(now_), data[normalized_company].searches))
                 val == IF DictHas(data[normalized_company].searches, query)
                        THEN DictGet(data[normalized_company].searches, query)
                        ELSE Miss
             IN  Outcome(d2, SaveCache(en, d2, f), val, 1)

\* A get that removes an expired entry from the mapping and does not save.
GetCachedResult_NoSave(en, data, f, now_, ttl, company, query) ==
    LET normalized_company == normalize_company_name(company)
    IN  IF ~en THEN Outcome(data, f, Miss, 0)
        ELSE IF normalized_company = <<>> THEN Outcome(data, f, Miss, 0)
        ELSE IF normalized_company \notin DOMAIN data THEN Outcome(data, f, Miss, 0)
        ELSE IF EntryStale(data[normalized_company], now_, ttl)
             THEN Outcome(CacheDel(data, normalized_company), f, Miss, 0)
        ELSE IF DictHas(data[normalized_company].searches, query)
             THEN Outcome(data, f, DictGet(data[normalized_company].searches, query), 0)
        ELSE Outcome(data, f, Miss, 0)

\* SearchCache.get_cached_result
GetCachedResult(en, data, f, now_, ttl, company, query) ==
    LET normalized_company == normalize_company_name(company)
    IN  IF ~en THEN Outcome(data, f, Miss, 0)
        ELSE IF normalized_company = <<>> THEN Outcome(data, f, Miss, 0)
        ELSE IF normalized_company \notin DOMAIN data THEN Outcome(data, f, Miss, 0)
        ELSE IF EntryStale(data[normalized_company], now_, ttl)
             THEN LET d2 == CacheDel(data, normalized_company)
                  IN  Outcome(d2, SaveCache(en, d2, f), Miss, 1)
        ELSE IF DictHas(data[normalized_company].searches, query)
             THEN Outcome(data, f, DictGet(data[normalized_company].searches, query), 0)
        ELSE Outcome(data, f, Miss, 0)

\* The mapping after set_cached_result stored under a non-empty key.
StoreResult(data, now_, normalized_company, query, result, refresh, overwrite) ==
    LET fresh == normalized_company \notin DOMAIN data
        old == IF fresh THEN EmptyDict ELSE data[normalized_company].searches
        ts == IF fresh \/ refresh THEN IsoFormat(now_) ELSE data[normalized_company].timestamp
        new == IF DictHas(old, query) /\ ~overwrite THEN old ELSE DictSet(old, query, result)
    IN  CacheSet(data, normalized_company, Entry(ts, new))

\* A put that keeps the result already stored for the query.
SetCachedResult_KeepFirst(en, data, f, now_, company, query, result) ==
    LET normalized_company == normalize_company_name(company)
    IN  IF ~en \/ normalized_company = <<>> THEN Outcome(data, f, Miss, 0)
        ELSE LET d2 == StoreResult(data, now_, normalized_company, query, result, TRUE, FALSE)
             IN  Outcome(d2, SaveCache(en, d2, f), Miss, 1)

\* Fixed-origin expiry: the timestamp is set when the entry is created only.
SetCachedResult_NoRefresh(en, data, f, now_, company, query, result) ==
    LET normalized_company == normalize_company_name(company)
    IN  IF ~en \/ normalized_company = <<>> THEN Outcome(data, f, Miss, 0)
        ELSE LET d2 == StoreResult(data, now_, normalized_company, query, result, FALSE, TRUE)
             IN  Outcome(d2, SaveCache(en, d2, f), Miss, 1)

\* A put that does not look at self.enabled.
SetCachedResult_NoEnabledCheck(en, data, f, now_, company, query, result) ==
    LET normalized_company == normalize_company_name(company)
    IN  IF normalized_company = <<>> THEN Outcome(data, f, Miss, 0)
        ELSE LET d2 == StoreResult(data, now_, normalized_company, query, result, TRUE, TRUE)
             IN  Outcome(d2, SaveCache(en, d2, f), Miss, 1)

\* A put that stores under the identifier as given, not under its normalized
\* form.
SetCachedResult_RawKey(en, data, f, now_, company, query, result) ==
    IF ~en THEN Outcome(data, f, Miss, 0)
    ELSE IF normalize_company_name(company) = <<>> THEN Outcome(data, f, Miss, 0)
    ELSE LET old == IF company \in DOMAIN data THEN data[company].searches ELSE EmptyDict
             d2 == CacheSet(data, company, Entry(IsoFormat(now_), DictSet(old, query, result)))
         IN  Outcome(d2, SaveCache(en, d2, f), Miss, 1)

\* SearchCache.set_cached_result
SetCachedResult(en, data, f, now_, company, query, result) ==
    LET normalized_company == normalize_company_name(company)
    IN  IF ~en THEN Outcome(data, f, Miss, 0)
        ELSE IF normalized_company = <<>> THEN Outcome(data, f, Miss, 0)
        ELSE LET old == IF normalized_company \in DOMAIN data
                        THEN data[normalized_company].searches
                        ELSE EmptyDict
                 d2 == CacheSet(data, normalized_company,
                                Entry(IsoFormat(now_), DictSet(old, query, result)))
             IN  Outcome(d2, SaveCache(en, d2, f), Miss, 1)

\* SearchCache.get_all_cached_queries
GetAllCachedQueries(en, data, f, now_, ttl, company) ==
    LET normalized_company == normalize_company_name(company)
    IN  IF ~en THEN Outcome(data, f, EmptyDict, 0)
        ELSE IF normalized_company \notin DOMAIN data THEN Outcome(data, f, EmptyDict, 0)
        ELSE IF EntryStale(data[normalized_company], now_, ttl)
             THEN Outcome(data, f, EmptyDict, 0)
        ELSE Outcome(data, f, data[normalized_company].searches, 0)

\* A get_all that hands out the entry's own "searches" object.
GetAllShares_NoCopy(en, data, now_, ttl, company) ==
    LET normalized_company == normalize_company_name(company)
    IN  IF ~en THEN Miss
        ELSE IF normalized_company \notin DOMAIN data THEN Miss
        ELSE IF EntryStale(data[normalized_company], now_, ttl) THEN Miss
        ELSE normalized_company

\* SearchCache.get_all_cached_queries: the key of the entry whose "searches"
\* object the returned mapping is, Miss if the mapping is an object of its
\* own.  Every return is a new {} or a .copy().
GetAllShares(en, data, now_, ttl, company) == Miss

\* del d[q], d.pop(q, None)
DictDel(d, q) == SelectSeq(d, LAMBDA x : x[1] # q)

\* ------------------------------------------------------ the search tool

\* "\n\n".join(f"=== Cached: {q} ===\n{r}" for q, r in all_cached.items())
CombineCached(all_cached) == <<"=== Cached">> \o all_cached

\* A tool that looks up the very query and searches when it is not cached.
SearchTool_ExactQuery(en, data, f, now_, ttl, company, query, fetched) ==
    LET normalized_company == normalize_company_name(company)
        cached == GetCachedResult(en, data, f, now_, ttl, normalized_company, query)
        result == IF cached.val # Miss THEN cached.val ELSE fetched
        o == SetCachedResult(en, cached.data, cached.file, now_, normalized_company, query, result)
    IN  [data |-> o.data, file |-> o.file, val |-> result, writes |-> o.writes,
         fetch |-> cached.val = Miss]

\* tavily_search / duckduckgo_search of a tool created with a cache and a
\* non-empty company_name; fetched is what the external search would return.
\* The outcome also tells whether the external search was called.
SearchTool(en, data, f, now_, ttl, company, query, fetched) ==
    LET normalized_company == normalize_company_name(company)
        all_cached == GetAllCachedQueries(en, data, f, now_, ttl, normalized_company).val
        result == IF all_cached # EmptyDict THEN CombineCached(all_cached) ELSE fetched
        o == SetCachedResult(en, data, f, now_, normalized_company, query, result)
    IN  [data |-> o.data, file |-> o.file, val |-> result, writes |-> o.writes,
         fetch |-> all_cached = EmptyDict]

\* The exception _search_with_tavily and _search_with_duckduckgo raise.
ToolException == <<"ToolException">>

\* A tool that stores the error text under the query before it raises.
SearchToolRaising_StoresError(en, data, f, now_, ttl, company, query) ==
    LET normalized_company == normalize_company_name(company)
        got == GetAllCachedQueries(en, data, f, now_, ttl, normalized_company)
    IN  IF got.val # EmptyDict
        THEN LET result == CombineCached(got.val)
                 o == SetCachedResult(en, got.data, got.file, now_, normalized_company,
                                      query, result)
             IN  [data |-> o.data, file |-> o.file, val |-> result, writes |-> o.writes,
                  fetch |-> FALSE, raised |-> Miss]
        ELSE LET o == SetCachedResult(en, got.data, got.file, now_, normalized_company,
                                      query, ToolException)
             IN  [data |-> o.data, file |-> o.file, val |-> Miss, writes |-> o.writes,
                  fetch |-> TRUE, raised |-> ToolException]

\* tavily_search / duckduckgo_search when the external search raises: a hit
\* returns the combined cached results and stores them under the query as
\* before; on a miss the exception leaves the tool before set_cached_result
\* is reached.
SearchToolRaising(en, data, f, now_, ttl, company, query) ==
    LET normalized_company == normalize_company_name(company)
        got == GetAllCachedQueries(en, data, f, now_, ttl, normalized_company)
    IN  IF got.val # EmptyDict
        THEN LET result == CombineCached(got.val)
                 o == SetCachedResult(en, got.data, got.file, now_, normalized_company,
                                      query, result)
             IN  [data |-> o.data, file |-> o.file, val |-> result, writes |-> o.writes,
                  fetch |-> FALSE, raised |-> Miss]
        ELSE [data |-> got.data, file |-> got.file, val |-> Miss, writes |-> 0,
              fetch |-> TRUE, raised |-> ToolException]

\* ---------------------------------------------------------------- inputs

Ids == { <<>>, <<" ">>, <<"a">>, <<"A", " ", "l", "t", "d">>, <<"b">> }
Queries == {"q1", "q2"}
Results == { <<"r1">>, <<"r2">> }
Keys == {normalize_company_name(id) : id \in Ids} \ {<<>>}

\* The company names a search tool is created with: those of Ids that are not
\* empty, and one that normalize_company_name maps to "A LTD" and "A LTD" to "A".
Companies == (Ids \ {<<>>}) \cup { <<"a", " ", "l", " ", "l", "t", "d", "t", "d">> }
\* The cache key of a company of the tool: the tool normalizes the name and the
\* cache normalizes what it is given.
ToolKey(company) == normalize_company_name(normalize_company_name(company))

\* The entries a cache file found at start-up may hold for one company.
InitTimestamps == {IsoFormat(0 - a) : a \in 0..MaxAge} \cup {BadTimestamp, NoTimestamp}
InitEntries == {Entry(ts, << <<"q1", <<"r1">> >> >>) : ts \in InitTimestamps}
InitMappings ==
    UNION {[ks -> InitEntries] : ks \in SUBSET Keys}
\* No file, an empty file, a file cut short, or a complete one.
InitFiles ==
    {NoFile, FileOf(EmptyText)}
    \cup {FileOf(TextPrefix(m, NChunks - 1)) : m \in {[k \in Keys |-> Entry(IsoFormat(0), EmptyDict)]}}
    \cup {FileOf(JsonDump(m)) : m \in InitMappings}

\* The identifiers of one company, and one that normalizes to no key.
IdsLog == {id \in Ids : id # <<>> /\ normalize_company_name(id) \in {<<>>, normalize_company_name(<<"a">>)}}
InitFilesLog ==
    {NoFile,
     FileOf(JsonDump([k \in Keys |-> Entry(IsoFormat(0 - 1), << <<"q1", <<"r1">> >> >>)]))}

\* ------------------------------------------------------------------ state

VARIABLES
    phase,        \* "new" before SearchCache(...) is called, then "ready"
    enabled,      \* self.enabled
    ttl_hours,    \* self.ttl_hours
    cache_data,   \* self._cache_data
    file,         \* the live file search_cache.json
    now,          \* datetime.now(), in hours
    company_name, \* the company_name the search tool was created with
    ret,          \* the last call and what it returned
    lookups,      \* the number of calls of the search tool so far
    watched,      \* the key whose puts are logged
    putLog,       \* last: per query, <<time, result>> of the last put under watched;
                  \* since: the time of the first put of the latest run of puts
                  \* under watched that are less than ttl_hours apart
    lastFetch,    \* the time of the tool's last external search, -1 if none
    \* Several SearchCache instances on one cache directory, _save_cache taken
    \* one file operation at a time:
    cpc,          \* per instance, where it is: "none" before its constructor,
                  \* "idle" between calls, a step of _save_cache, or "dead"
    cmem,         \* per instance, self._cache_data
    cwritten,     \* per instance, the chunks of the text written to temp_file
    cfd,          \* per instance, the inode of its open temp_file, or NoInode
    cput,         \* per instance, the <<key, query, result>> of its put in progress
    cdone,        \* per instance, the <<key, query, result>> of its returned puts
    fs,           \* the directory: the inode of search_cache.json (live) and of
                  \* search_cache.json.tmp (tmp), and what search_cache.json.bak
                  \* holds, None if there is no such file
    inodes,       \* the content of each inode: the chunks it holds
    cret,         \* per instance, the <<key, query, result>> its gets returned
    \* The caller's hold on the mapping get_all_cached_queries returned:
    held,         \* the mapping object, and the key of the entry whose "searches"
                  \* object it is (Miss if it is an object of its own)
    \* extract_financial_data on one data table of one section:
    ths,              \* the header cells of the table, as their texts
    section_id,       \* the section the table is in
    max_years,        \* the argument max_years
    max_quarters,     \* the argument max_quarters
    columns_to_keep,  \* the list of column indices selected, NotRun before the call
    tbody,            \* the body rows of the table, each the texts of its cells
    aggressive,       \* the argument aggressive
    html_parts,       \* the list html_parts the call built
    \* extract_financial_data on a whole page, and perform_analysis around it:
    html_content,     \* the page
    include_sections, \* the argument include_sections
    calls,            \* the calls of extract_financial_data so far, each with its
                      \* arguments and the document it returned
    params,           \* the request perform_analysis was called with
    job               \* where perform_analysis is, and its local variables

cvars == <<cpc, cmem, cwritten, cfd, cput, cdone, fs, inodes>>

\* The variables of the later parts of the model.
rvars == <<tbody, aggressive, html_parts, html_content, include_sections, calls, params, job>>
evars == <<cret, held, ths, section_id, max_years, max_quarters, columns_to_keep, rvars>>

vars == <<phase, enabled, ttl_hours, cache_data, file, now, company_name, ret,
          lookups, watched, putLog, lastFetch, cvars, evars>>

\* The cache instances, and the inodes of the cache directory.
Procs == {"p1", "p2"}
InodeIds == {"i1", "i2", "i3"}
NoInode == "none"
\* A text that is no prefix of the JSON text of any mapping.
Garbled == [data |-> EmptyCache, written |-> 0 - 1]
\* An inode holds a sequence of chunks: <<data, j>> is chunk j of the JSON text
\* of data, Hole the bytes a write beyond the end of the file leaves behind it.
Hole == <<>>
NoChunks == <<>>
ChunksOf(data) == [j \in 1..NChunks |-> <<data, j>>]
\* f.write at the offset off of an inode
WriteAt(chunks, off, c) ==
    LET n == IF Len(chunks) > off THEN Len(chunks) ELSE off + 1
    IN  [j \in 1..n |-> IF j = off + 1 THEN c
                        ELSE IF j <= Len(chunks) THEN chunks[j] ELSE Hole]
\* The text an inode holds, as json.load reads it.
TextOf(chunks) ==
    IF chunks = NoChunks THEN EmptyText
    ELSE IF /\ Len(chunks) <= NChunks
            /\ chunks[1] # Hole
            /\ \A j \in 1..Len(chunks) : chunks[j] = <<chunks[1][1], j>>
         THEN TextPrefix(chunks[1][1], Len(chunks))
    ELSE Garbled

\* None, and a value that is not None.
PyNone == [some |-> FALSE, val |-> <<>>]
Some(v) == [some |-> TRUE, val |-> v]

\* No instance on the directory yet.
NoInstances ==
    /\ cpc = [p \in Procs |-> "none"]
    /\ cmem = [p \in Procs |-> EmptyCache]
    /\ cwritten = [p \in Procs |-> 0]
    /\ cfd = [p \in Procs |-> NoInode]
    /\ cput = [p \in Procs |-> <<>>]
    /\ cdone = [p \in Procs |-> {}]
    /\ fs = [live |-> NoInode, tmp |-> NoInode, bak |-> PyNone]
    /\ inodes = [i \in InodeIds |-> NoChunks]

\* A page as BeautifulSoup finds its elements: the first h1, ul#top-ratios,
\* div.about, div.pros and div.cons, each None when the page has none, and the
\* first section of each id the page has a section for.
BlankPage ==
    [h1 |-> PyNone, top_ratios |-> PyNone, about |-> PyNone, pros |-> PyNone,
     cons |-> PyNone, sections |-> <<>>]

\* No request yet, and perform_analysis not called.
NoParams ==
    [sections |-> [type |-> "none", str |-> <<>>, list |-> <<>>, int |-> 0],
     max_years |-> 0, max_quarters |-> 0, aggressive |-> FALSE,
     prompt_name |-> "none", max_context |-> 0, preview |-> FALSE, api_key |-> FALSE]
NoTokens == 0 - 1
NoJob ==
    [pc |-> "none", include_sections |-> PyNone, financial_data |-> PyNone,
     prompt |-> PyNone, system_tokens |-> NoTokens, data_tokens |-> NoTokens,
     total_tokens |-> NoTokens, status |-> "none",
     result |-> "none"]

\* No table body, no page, no call of extract_financial_data or perform_analysis.
NoReduction ==
    /\ tbody = <<>>
    /\ aggressive = FALSE
    /\ html_parts = <<>>
    /\ html_content = BlankPage
    /\ include_sections = PyNone
    /\ calls = <<>>
    /\ params = NoParams
    /\ job = NoJob

\* No list of column indices holds a negative index.
NotRun == <<0 - 1>>
NoHold == [map |-> EmptyDict, of |-> Miss]
\* Nothing held by the caller, no table extracted.
NoExtras ==
    /\ cret = [p \in Procs |-> {}]
    /\ held = NoHold
    /\ ths = <<>>
    /\ section_id = "none"
    /\ max_years = 0
    /\ max_quarters = 0
    /\ columns_to_keep = NotRun
    /\ NoReduction

NoPut == <<>>
NoPuts == [last |-> [q \in Queries |-> NoPut], since |-> 0]
\* val is the text a get or the search tool returned, all the mapping a get_all
\* returned.
Ret(op, val, all, writes, fetch) ==
    [op |-> op, val |-> val, all |-> all, writes |-> writes, fetch |-> fetch]

Init ==
    /\ phase = "new"
    /\ enabled = FALSE
    /\ ttl_hours = 0
    /\ cache_data = EmptyCache
    /\ file \in InitFiles
    /\ now = 0
    /\ company_name = <<"a">>
    /\ ret = Ret("none", Miss, EmptyDict, 0, FALSE)
    /\ lookups = 0
    /\ watched = normalize_company_name(<<"a">>)
    /\ putLog = NoPuts
    /\ lastFetch = -1
    /\ NoInstances
    /\ NoExtras

\* The same, the puts under one key being logged.
InitLog ==
    /\ phase = "new"
    /\ enabled = FALSE
    /\ ttl_hours = 0
    /\ cache_data = EmptyCache
    /\ file \in InitFilesLog
    /\ now = 0
    /\ company_name = <<"a">>
    /\ ret = Ret("none", Miss, EmptyDict, 0, FALSE)
    /\ lookups = 0
    /\ watched = normalize_company_name(<<"a">>)
    /\ putLog = NoPuts
    /\ lastFetch = -1
    /\ NoInstances
    /\ NoExtras

\* SearchCache(cache_dir, ttl_hours = ttl, enabled = en)
Construct(en, ttl) ==
    /\ phase = "new"
    /\ IF InitCacheRaises(en, file) # Miss
       THEN /\ ret' = Ret("raise", InitCacheRaises(en, file), EmptyDict, 0, FALSE)
            /\ phase' = "raised"
            /\ UNCHANGED <<cache_data, file>>
       ELSE /\ LET o == InitCache(en, file, now, ttl)
               IN  /\ cache_data' = o.data
                   /\ file' = o.file
                   /\ ret' = Ret("init", Miss, EmptyDict, o.writes, FALSE)
            /\ phase' = "ready"
    /\ enabled' = en
    /\ ttl_hours' = ttl
    /\ UNCHANGED <<now, company_name, lookups, watched, putLog, lastFetch>>
    /\ UNCHANGED cvars
    /\ UNCHANGED evars

\* cache.get_cached_result(id, q)
Get(id, q) ==
    /\ phase = "ready"
    /\ LET o == GetCachedResult(enabled, cache_data, file, now, ttl_hours, id, q)
       IN  /\ cache_data' = o.data
           /\ file' = o.file
           /\ ret' = Ret("get", o.val, EmptyDict, o.writes, FALSE)
    /\ UNCHANGED <<phase, enabled, ttl_hours, now, company_name, lookups, watched, putLog, lastFetch>>
    /\ UNCHANGED cvars
    /\ UNCHANGED evars

Max(S) == CHOOSE x \in S : \A y \in S : y <= x
\* The time of the last logged put, -1 if there is none.
LastPutTime(log) == Max({-1} \cup {log.last[q][1] : q \in {x \in Queries : log.last[x] # NoPut}})
LogPut(log, id, q, r, t) ==
    IF normalize_company_name(id) = watched
    THEN [last |-> [log.last EXCEPT ![q] = <<t, r>>],
          since |-> IF LastPutTime(log) >= 0 /\ t - LastPutTime(log) < ttl_hours
                    THEN log.since ELSE t]
    ELSE log

\* cache.set_cached_result(id, q, r), the log of puts left to the caller
PutCall(id, q, r) ==
    /\ phase = "ready"
    /\ LET o == SetCachedResult(enabled, cache_data, file, now, id, q, r)
       IN  /\ cache_data' = o.data
           /\ file' = o.file
           /\ ret' = Ret("put", o.val, EmptyDict, o.writes, FALSE)
    /\ UNCHANGED <<phase, enabled, ttl_hours, now, company_name, lookups, watched, lastFetch>>
    /\ UNCHANGED cvars
    /\ UNCHANGED evars

Put(id, q, r) ==
    /\ PutCall(id, q, r)
    /\ UNCHANGED putLog

\* The same call, noted in the log of puts.
PutLogged(id, q, r) ==
    /\ PutCall(id, q, r)
    /\ putLog' = LogPut(putLog, id, q, r, now)

\* cache.get_all_cached_queries(id)
GetAll(id) ==
    /\ phase = "ready"
    /\ LET o == GetAllCachedQueries(enabled, cache_data, file, now, ttl_hours, id)
       IN  /\ cache_data' = o.data
           /\ file' = o.file
           /\ ret' = Ret("get_all", Miss, o.val, o.writes, FALSE)
    /\ UNCHANGED <<phase, enabled, ttl_hours, now, company_name, lookups, watched, putLog, lastFetch>>
    /\ UNCHANGED cvars
    /\ UNCHANGED evars

\* The search tool called with the query q; the external search, if it is
\* called, returns fetched.  The log of puts is left to the caller.
LookupCall(q, fetched) ==
    /\ phase = "ready"
    /\ lookups < MaxLookups
    /\ LET o == SearchTool(enabled, cache_data, file, now, ttl_hours, company_name, q, fetched)
       IN  /\ cache_data' = o.data
           /\ file' = o.file
           /\ ret' = Ret("lookup", o.val, EmptyDict, o.writes, o.fetch)
           /\ lastFetch' = IF o.fetch THEN now ELSE lastFetch
    /\ lookups' = lookups + 1
    /\ UNCHANGED <<phase, enabled, ttl_hours, now, company_name, watched>>
    /\ UNCHANGED cvars
    /\ UNCHANGED evars

Lookup(q, fetched) ==
    /\ LookupCall(q, fetched)
    /\ UNCHANGED putLog

\* The same call, the put it makes noted in the log of puts.
LookupLogged(q, fetched) ==
    /\ LookupCall(q, fetched)
    /\ putLog' = IF ret'.writes > 0
                 THEN LogPut(putLog, normalize_company_name(company_name), q, ret'.val, now)
                 ELSE putLog

\* One hour passes.
Tick ==
    /\ now < MaxTime
    /\ now' = now + 1
    /\ ret' = Ret("tick", Miss, EmptyDict, 0, FALSE)
    /\ UNCHANGED <<phase, enabled, ttl_hours, cache_data, file, company_name, lookups,
                   watched, putLog, lastFetch>>
    /\ UNCHANGED cvars
    /\ UNCHANGED evars

Next ==
    \/ \E en \in BOOLEAN, ttl \in 0..MaxTtlHours : Construct(en, ttl)
    \/ \E id \in Ids, q \in Queries : Get(id, q)
    \/ \E id \in Ids, q \in Queries : Put(id, q, <<"r1">>)
    \/ \E id \in Ids : GetAll(id)
    \/ Tick

Spec == Init /\ [][Next]_vars

\* The same, for a search tool created with any non-empty company name.
InitTool ==
    /\ phase = "new"
    /\ enabled = FALSE
    /\ ttl_hours = 0
    /\ cache_data = EmptyCache
    /\ file \in InitFilesLog
    /\ now = 0
    /\ company_name \in Companies
    /\ ret = Ret("none", Miss, EmptyDict, 0, FALSE)
    /\ lookups = 0
    /\ watched = normalize_company_name(<<"a">>)
    /\ putLog = NoPuts
    /\ lastFetch = -1
    /\ NoInstances
    /\ NoExtras

\* The cache with its puts logged.
NextLog ==
    \/ \E en \in BOOLEAN, ttl \in 0..MaxTtlHours : Construct(en, ttl)
    \/ \E id \in IdsLog, q \in Queries : Get(id, q)
    \/ \E id \in IdsLog, q \in Queries, r \in Results : PutLogged(id, q, r)
    \/ \E id \in IdsLog : GetAll(id)
    \/ Tick

SpecLog == InitLog /\ [][NextLog]_vars

\* The search tool and the cache it was created with.
NextTool ==
    \/ \E en \in BOOLEAN, ttl \in 0..MaxTtlHours : Construct(en, ttl)
    \/ \E q \in Queries, r \in Results : Lookup(q, r)
    \/ \E q \in Queries : Get(company_name, q)
    \/ Tick

SpecTool == InitTool /\ [][NextTool]_vars

\* The search tool with the puts of its lookups logged.
NextRefresh ==
    \/ \E en \in BOOLEAN, ttl \in 0..MaxTtlHours : Construct(en, ttl)
    \/ \E q \in Queries : LookupLogged(q, <<"r1">>)
    \/ \E q \in Queries : Get(company_name, q)
    \/ Tick

SpecRefresh == InitTool /\ [][NextRefresh]_vars

\* The search tool called with the query q, the external search raising if it
\* is called.
LookupRaising(q) ==
    /\ phase = "ready"
    /\ lookups < MaxLookups
    /\ LET o == SearchToolRaising(enabled, cache_data, file, now, ttl_hours, company_name, q)
       IN  /\ cache_data' = o.data
           /\ file' = o.file
           /\ ret' = IF o.raised # Miss
                     THEN Ret("raise", o.raised, EmptyDict, o.writes, o.fetch)
                     ELSE Ret("lookup", o.val, EmptyDict, o.writes, o.fetch)
           /\ lastFetch' = IF o.fetch THEN now ELSE lastFetch
    /\ lookups' = lookups + 1
    /\ UNCHANGED <<phase, enabled, ttl_hours, now, company_name, watched, putLog>>
    /\ UNCHANGED cvars
    /\ UNCHANGED evars

\* The search tool with an external search that may raise.
NextRaise ==
    \/ \E en \in BOOLEAN, ttl \in 0..MaxTtlHours : Construct(en, ttl)
    \/ \E q \in Queries : Lookup(q, <<"r1">>)
    \/ \E q \in Queries : LookupRaising(q)
    \/ Tick

SpecRaise == InitTool /\ [][NextRaise]_vars

\* ------------------------------------------- any file at start-up

\* The live file may also be unreadable, or hold JSON of another shape.
InitFilesAny ==
    InitFilesLog \cup {FileOf(Garbled), FileOf(Unreadable), FileOf(JsonArray), FileOf(JsonScalarEntry)}

InitLoad ==
    /\ phase = "new"
    /\ enabled = FALSE
    /\ ttl_hours = 0
    /\ cache_data = EmptyCache
    /\ file \in InitFilesAny
    /\ now = 0
    /\ company_name = <<"a">>
    /\ ret = Ret("none", Miss, EmptyDict, 0, FALSE)
    /\ lookups = 0
    /\ watched = normalize_company_name(<<"a">>)
    /\ putLog = NoPuts
    /\ lastFetch = -1
    /\ NoInstances
    /\ NoExtras

NextLoad ==
    \/ \E en \in BOOLEAN, ttl \in 0..MaxTtlHours : Construct(en, ttl)
    \/ \E id \in IdsLog, q \in Queries : Get(id, q)
    \/ \E id \in IdsLog, q \in Queries : Put(id, q, <<"r1">>)
    \/ Tick

SpecLoad == InitLoad /\ [][NextLoad]_vars

\* ------------------------------------------- saves that fail

\* cache.set_cached_result(id, q, r), the save, if there is one, failing at the
\* statement fail
PutFailing(id, q, r, fail) ==
    /\ phase = "ready"
    /\ LET o == SetCachedResult(enabled, cache_data, file, now, id, q, r)
           sv == SaveCacheFailing(enabled, o.data, file, fail)
       IN  /\ cache_data' = o.data
           /\ file' = IF o.writes > 0 THEN sv.file ELSE file
           /\ ret' = IF o.writes > 0 /\ sv.raised # Miss
                     THEN Ret("raise", sv.raised, EmptyDict, 0, FALSE)
                     ELSE Ret("put failing", o.val, EmptyDict, 0, FALSE)
    /\ UNCHANGED <<phase, enabled, ttl_hours, now, company_name, lookups, watched, putLog, lastFetch>>
    /\ UNCHANGED cvars
    /\ UNCHANGED evars

\* cache.get_cached_result(id, q), the save, if there is one, failing at the
\* statement fail
GetFailing(id, q, fail) ==
    /\ phase = "ready"
    /\ LET o == GetCachedResult(enabled, cache_data, file, now, ttl_hours, id, q)
           sv == SaveCacheFailing(enabled, o.data, file, fail)
       IN  /\ cache_data' = o.data
           /\ file' = IF o.writes > 0 THEN sv.file ELSE file
           /\ ret' = IF o.writes > 0 /\ sv.raised # Miss
                     THEN Ret("raise", sv.raised, EmptyDict, 0, FALSE)
                     ELSE Ret("get failing", o.val, EmptyDict, 0, FALSE)
    /\ UNCHANGED <<phase, enabled, ttl_hours, now, company_name, lookups, watched, putLog, lastFetch>>
    /\ UNCHANGED cvars
    /\ UNCHANGED evars

\* One identifier with a key, one without.
IdsFail == { <<"a">>, <<" ">> }
QueriesFail == {"q1"}

NextFail ==
    \/ \E en \in BOOLEAN, ttl \in 0..MaxTtlHours : Construct(en, ttl)
    \/ \E id \in IdsFail, q \in QueriesFail : Put(id, q, <<"r1">>)
    \/ \E id \in IdsFail, q \in QueriesFail, r \in Results, fail \in SaveFailures :
          PutFailing(id, q, r, fail)
    \/ \E id \in IdsFail, q \in QueriesFail, fail \in SaveFailures : GetFailing(id, q, fail)
    \/ Tick

SpecFail == InitLog /\ [][NextFail]_vars

\* ------------------------------------- identifiers spelled in several ways

\* The identifiers put under, and other spellings of them to read under.
KeyPutIds == { <<"a">>, <<"b">>, <<" ">> }
KeyGetIds == { <<"A", " ", "l", "t", "d">>, <<"b">>, <<>> }

NextKey ==
    \/ \E en \in BOOLEAN, ttl \in 0..MaxTtlHours : Construct(en, ttl)
    \/ \E id \in KeyPutIds, r \in Results : Put(id, "q1", r)
    \/ \E id \in KeyGetIds, q \in Queries : Get(id, q)
    \/ \E id \in KeyGetIds : GetAll(id)
    \/ Tick

SpecKey == InitLog /\ [][NextKey]_vars

\* ------------------------------------------- the caller of get_all

\* cache.get_all_cached_queries(id), the caller keeping the returned mapping
GetAllKept(id) ==
    /\ phase = "ready"
    /\ LET o == GetAllCachedQueries(enabled, cache_data, file, now, ttl_hours, id)
       IN  /\ cache_data' = o.data
           /\ file' = o.file
           /\ ret' = Ret("get_all", Miss, o.val, o.writes, FALSE)
           /\ held' = [map |-> o.val,
                       of |-> GetAllShares(enabled, cache_data, now, ttl_hours, id)]
    /\ UNCHANGED <<phase, enabled, ttl_hours, now, company_name, lookups, watched, putLog, lastFetch>>
    /\ UNCHANGED cvars
    /\ UNCHANGED <<cret, ths, section_id, max_years, max_quarters, columns_to_keep, rvars>>

\* The caller changes the mapping it holds to m2.  An entry whose "searches"
\* object the mapping is changes with it.
HeldBecomes(m2) ==
    /\ held' = [held EXCEPT !.map = m2]
    /\ cache_data' =
         IF /\ held.of # Miss
            /\ held.of \in DOMAIN cache_data
            /\ cache_data[held.of].searches = held.map
         THEN [cache_data EXCEPT ![held.of].searches = m2]
         ELSE cache_data
    /\ UNCHANGED <<phase, enabled, ttl_hours, file, now, company_name, ret, lookups,
                   watched, putLog, lastFetch>>
    /\ UNCHANGED cvars
    /\ UNCHANGED <<cret, ths, section_id, max_years, max_quarters, columns_to_keep, rvars>>

\* The caller: returned[q] = r
HeldSet(q, r) ==
    /\ ret.op = "get_all"
    /\ HeldBecomes(DictSet(held.map, q, r))

\* The caller: del returned[q]
HeldDel(q) ==
    /\ ret.op = "get_all"
    /\ DictHas(held.map, q)
    /\ HeldBecomes(DictDel(held.map, q))

NextSnap ==
    \/ \E en \in BOOLEAN, ttl \in 0..MaxTtlHours : Construct(en, ttl)
    \/ \E id \in IdsLog, q \in Queries : Put(id, q, <<"r1">>)
    \/ \E id \in IdsLog : GetAllKept(id)
    \/ \E q \in Queries, r \in Results : HeldSet(q, r)
    \/ \E q \in Queries : HeldDel(q)
    \/ Tick

SpecSnap == InitLog /\ [][NextSnap]_vars

\* --------------------------------- instances sharing one cache directory

\* Each instance makes at most MaxPuts puts.
MaxPuts == 1

\* The identifiers the instances put under.
ConcIds == { <<"a">>, <<"b">> }

svars == <<phase, enabled, ttl_hours, cache_data, file, now, company_name, ret,
           lookups, watched, putLog, lastFetch>>

\* search_cache.json as an instance opening it reads it.
LiveFile == IF fs.live = NoInode THEN NoFile ELSE FileOf(TextOf(inodes[fs.live]))

\* An inode that no directory entry and no open file refers to is freed.
Collect(ino, dir, fds) ==
    [i \in InodeIds |->
        IF i \in {dir.live, dir.tmp} \cup {fds[p] : p \in Procs} THEN ino[i] ELSE NoChunks]
FreeInode == CHOOSE i \in InodeIds : i \notin {fs.live, fs.tmp} \cup {cfd[p] : p \in Procs}

\* Two instances are about to be constructed, cache enabled, on a directory
\* that holds no cache file or the file of an empty mapping.
InitConc ==
    /\ phase = "new"
    /\ enabled = TRUE
    /\ ttl_hours = MaxTtlHours
    /\ cache_data = EmptyCache
    /\ file = NoFile
    /\ now = 0
    /\ company_name = <<"a">>
    /\ ret = Ret("none", Miss, EmptyDict, 0, FALSE)
    /\ lookups = 0
    /\ watched = normalize_company_name(<<"a">>)
    /\ putLog = NoPuts
    /\ lastFetch = -1
    /\ cpc = [p \in Procs |-> "none"]
    /\ cmem = [p \in Procs |-> EmptyCache]
    /\ cwritten = [p \in Procs |-> 0]
    /\ cfd = [p \in Procs |-> NoInode]
    /\ cput = [p \in Procs |-> <<>>]
    /\ cdone = [p \in Procs |-> {}]
    /\ \E had \in BOOLEAN :
        /\ fs = [live |-> IF had THEN "i1" ELSE NoInode, tmp |-> NoInode, bak |-> PyNone]
        /\ inodes = [i \in InodeIds |->
                        IF had /\ i = "i1" THEN ChunksOf(EmptyCache) ELSE NoChunks]
    /\ NoExtras

\* SearchCache.__init__ of the instance p: it loads the live file as it is now.
\* Nothing it can load is stale, so the sweep removes and saves nothing.
ConcConstruct(p) ==
    /\ cpc[p] = "none"
    /\ cmem' = [cmem EXCEPT ![p] = InitCache(enabled, LiveFile, now, ttl_hours).data]
    /\ cpc' = [cpc EXCEPT ![p] = "idle"]
    /\ UNCHANGED <<cwritten, cfd, cput, cdone, fs, inodes, svars, evars>>

\* set_cached_result(id, q, r) of the instance p up to its call of _save_cache:
\* the entry is created or updated in self._cache_data.  No lock is taken.
ConcPut(p, id, q, r) ==
    /\ cpc[p] = "idle"
    /\ Cardinality(cdone[p]) < MaxPuts
    /\ <<normalize_company_name(id), q, r>> \notin cdone[p]
    /\ cmem' = [cmem EXCEPT ![p] =
                    SetCachedResult(enabled, cmem[p], LiveFile, now, id, q, r).data]
    /\ cput' = [cput EXCEPT ![p] = <<normalize_company_name(id), q, r>>]
    /\ cpc' = [cpc EXCEPT ![p] = "backup"]
    /\ UNCHANGED <<cwritten, cfd, cdone, fs, inodes, svars, evars>>

\* _save_cache: shutil.copy2(self.cache_file, backup_file) if the live file exists
ConcBackup(p) ==
    /\ cpc[p] = "backup"
    /\ fs' = [fs EXCEPT !.bak = IF fs.live # NoInode THEN Some(inodes[fs.live]) ELSE fs.bak]
    /\ cpc' = [cpc EXCEPT ![p] = "open"]
    /\ UNCHANGED <<cmem, cwritten, cfd, cput, cdone, inodes, svars, evars>>

\* _save_cache: open(temp_file, 'w') creates search_cache.json.tmp, or truncates
\* the one that is there.
ConcOpen(p) ==
    /\ cpc[p] = "open"
    /\ LET i == IF fs.tmp # NoInode THEN fs.tmp ELSE FreeInode
       IN  /\ fs' = [fs EXCEPT !.tmp = i]
           /\ inodes' = [inodes EXCEPT ![i] = NoChunks]
           /\ cfd' = [cfd EXCEPT ![p] = i]
    /\ cwritten' = [cwritten EXCEPT ![p] = 0]
    /\ cpc' = [cpc EXCEPT ![p] = "write"]
    /\ UNCHANGED <<cmem, cput, cdone, svars, evars>>

\* _save_cache: json.dump writes the next chunk of the text at the offset of the
\* instance's own file object; leaving the with block after the last chunk
\* closes the file.
ConcWrite(p) ==
    /\ cpc[p] = "write"
    /\ LET off == cwritten[p]
           last == off + 1 = NChunks
           fds == [cfd EXCEPT ![p] = IF last THEN NoInode ELSE cfd[p]]
           ino == [inodes EXCEPT ![cfd[p]] = WriteAt(@, off, <<cmem[p], off + 1>>)]
       IN  /\ inodes' = Collect(ino, fs, fds)
           /\ cfd' = fds
           /\ cwritten' = [cwritten EXCEPT ![p] = IF last THEN 0 ELSE off + 1]
           /\ cpc' = [cpc EXCEPT ![p] = IF last THEN "rename" ELSE "write"]
    /\ UNCHANGED <<cmem, cput, cdone, fs, svars, evars>>

\* _save_cache: temp_file.replace(self.cache_file).  If another instance has
\* renamed the temporary file away, FileNotFoundError is caught by
\* "except IOError" and set_cached_result returns.
ConcRename(p) ==
    /\ cpc[p] = "rename"
    /\ IF fs.tmp # NoInode
       THEN /\ fs' = [fs EXCEPT !.live = fs.tmp, !.tmp = NoInode]
            /\ inodes' = Collect(inodes, fs', cfd)
            /\ cpc' = [cpc EXCEPT ![p] = "unlink"]
            /\ UNCHANGED <<cput, cdone>>
       ELSE /\ cpc' = [cpc EXCEPT ![p] = "idle"]
            /\ cdone' = [cdone EXCEPT ![p] = @ \cup {cput[p]}]
            /\ cput' = [cput EXCEPT ![p] = <<>>]
            /\ UNCHANGED <<fs, inodes>>
    /\ UNCHANGED <<cmem, cwritten, cfd, svars, evars>>

\* _save_cache: backup_file.unlink() if it exists; set_cached_result returns.
ConcUnlink(p) ==
    /\ cpc[p] = "unlink"
    /\ fs' = [fs EXCEPT !.bak = PyNone]
    /\ cpc' = [cpc EXCEPT ![p] = "idle"]
    /\ cdone' = [cdone EXCEPT ![p] = @ \cup {cput[p]}]
    /\ cput' = [cput EXCEPT ![p] = <<>>]
    /\ UNCHANGED <<cmem, cwritten, cfd, inodes, svars, evars>>

\* The process of the instance p dies inside _save_cache; its open file is
\* closed by the operating system.
ConcCrash(p) ==
    /\ cpc[p] \in {"backup", "open", "write", "rename", "unlink"}
    /\ cpc' = [cpc EXCEPT ![p] = "dead"]
    /\ cfd' = [cfd EXCEPT ![p] = NoInode]
    /\ cwritten' = [cwritten EXCEPT ![p] = 0]
    /\ inodes' = Collect(inodes, fs, cfd')
    /\ UNCHANGED <<cmem, cput, cdone, fs, svars, evars>>

NextConc ==
    \/ \E p \in Procs : ConcConstruct(p)
    \/ \E p \in Procs, id \in ConcIds, q \in Queries : ConcPut(p, id, q, <<"r1">>)
    \/ \E p \in Procs : ConcBackup(p)
    \/ \E p \in Procs : ConcOpen(p)
    \/ \E p \in Procs : ConcWrite(p)
    \/ \E p \in Procs : ConcRename(p)
    \/ \E p \in Procs : ConcUnlink(p)
    \/ \E p \in Procs : ConcCrash(p)

SpecConc == InitConc /\ [][NextConc]_vars

\* --------------------------------------------- _save_cache and I/O errors

\* set_cached_result returns after _save_cache.
Returned(p) ==
    /\ cpc' = [cpc EXCEPT ![p] = "idle"]
    /\ cdone' = [cdone EXCEPT ![p] = @ \cup {cput[p]}]
    /\ cput' = [cput EXCEPT ![p] = <<>>]

\* _save_cache: shutil.copy2 raises; "except Exception: pass" goes on to the
\* temporary file.  The copy may have created a backup file that it did not
\* fill.
ConcBackupFails(p, left) ==
    /\ cpc[p] = "backup"
    /\ fs.live # NoInode
    /\ fs' = [fs EXCEPT !.bak = IF left THEN Some(NoChunks) ELSE fs.bak]
    /\ cpc' = [cpc EXCEPT ![p] = "open"]
    /\ UNCHANGED <<cmem, cwritten, cfd, cput, cdone, inodes, svars, evars>>

\* _save_cache: open(temp_file, 'w') raises OSError; "except IOError" prints the
\* warning and set_cached_result returns.
ConcOpenFails(p) ==
    /\ cpc[p] = "open"
    /\ Returned(p)
    /\ UNCHANGED <<cmem, cwritten, cfd, fs, inodes, svars, evars>>

\* _save_cache: json.dump raises OSError after the chunks written so far; the
\* with block closes the file, "except IOError" prints the warning and
\* set_cached_result returns.
ConcWriteFails(p) ==
    /\ cpc[p] = "write"
    /\ cfd' = [cfd EXCEPT ![p] = NoInode]
    /\ cwritten' = [cwritten EXCEPT ![p] = 0]
    /\ inodes' = Collect(inodes, fs, cfd')
    /\ Returned(p)
    /\ UNCHANGED <<cmem, fs, svars, evars>>

\* _save_cache: temp_file.replace raises OSError with the temporary file in
\* place; "except IOError" prints the warning and set_cached_result returns.
ConcRenameFails(p) ==
    /\ cpc[p] = "rename"
    /\ fs.tmp # NoInode
    /\ Returned(p)
    /\ UNCHANGED <<cmem, cwritten, cfd, fs, inodes, svars, evars>>

\* _save_cache: backup_file.unlink() raises; "except Exception: pass", and
\* set_cached_result returns.
ConcUnlinkFails(p) ==
    /\ cpc[p] = "unlink"
    /\ fs.bak.some
    /\ Returned(p)
    /\ UNCHANGED <<cmem, cwritten, cfd, fs, inodes, svars, evars>>

\* Instances that put, with any statement of _save_cache failing; no process
\* dies.
NextSave ==
    \/ \E p \in Procs : ConcConstruct(p)
    \/ \E p \in Procs, id \in ConcIds : ConcPut(p, id, "q1", <<"r1">>)
    \/ \E p \in Procs : ConcBackup(p)
    \/ \E p \in Procs, left \in BOOLEAN : ConcBackupFails(p, left)
    \/ \E p \in Procs : ConcOpen(p)
    \/ \E p \in Procs : ConcOpenFails(p)
    \/ \E p \in Procs : ConcWrite(p)
    \/ \E p \in Procs : ConcWriteFails(p)
    \/ \E p \in Procs : ConcRename(p)
    \/ \E p \in Procs : ConcRenameFails(p)
    \/ \E p \in Procs : ConcUnlink(p)
    \/ \E p \in Procs : ConcUnlinkFails(p)

SpecSave == InitConc /\ [][NextSave]_vars

\* ------------------------------ instances reading each other's results

\* get_cached_result(id, q) of the instance p.  It reads self._cache_data only;
\* nothing is stale here, so it removes and saves nothing.
ConcGet(p, id, q) ==
    /\ cpc[p] = "idle"
    /\ LET o == GetCachedResult(enabled, cmem[p], LiveFile, now, ttl_hours, id, q)
       IN  /\ o.writes = 0
           /\ cmem' = [cmem EXCEPT ![p] = o.data]
           /\ cret' = [cret EXCEPT ![p] = @ \cup {<<normalize_company_name(id), q, o.val>>}]
    /\ UNCHANGED <<cpc, cwritten, cfd, cput, cdone, fs, inodes, svars>>
    /\ UNCHANGED <<held, ths, section_id, max_years, max_quarters, columns_to_keep, rvars>>

\* Two running instances that put and get, and do not die.
NextEventual ==
    \/ \E p \in Procs : ConcConstruct(p)
    \/ \E p \in Procs, id \in ConcIds : ConcPut(p, id, "q1", <<"r1">>)
    \/ \E p \in Procs : ConcBackup(p)
    \/ \E p \in Procs : ConcOpen(p)
    \/ \E p \in Procs : ConcWrite(p)
    \/ \E p \in Procs : ConcRename(p)
    \/ \E p \in Procs : ConcUnlink(p)
    \/ \E p \in Procs, id \in ConcIds : ConcGet(p, id, "q1")

\* The instances keep running: every instance is constructed and every call
\* that has begun goes on to its end.  When an instance calls get is up to its
\* caller.
FairEventual ==
    \A p \in Procs :
        /\ WF_vars(ConcConstruct(p))
        /\ WF_vars(ConcBackup(p))
        /\ WF_vars(ConcOpen(p))
        /\ WF_vars(ConcWrite(p))
        /\ WF_vars(ConcRename(p))
        /\ WF_vars(ConcUnlink(p))

SpecEventual == InitConc /\ [][NextEventual]_vars /\ FairEventual

\* ------------------------------------------- normalize_company_name alone

\* The pieces company names are put together from.
NamePieces ==
    { <<"A">>, <<"a">>, <<" ">>, <<" ", "L">>, <<"T", "D">>,
      <<" ", "L", "T", "D">>, <<" ", "l", "t", "d">>, <<" ", "I", "N", "C">>,
      <<"O", "M", "E">> }

InitNorm ==
    /\ phase = "new"
    /\ enabled = FALSE
    /\ ttl_hours = 0
    /\ cache_data = EmptyCache
    /\ file = NoFile
    /\ now = 0
    /\ company_name = <<>>
    /\ ret = Ret("none", Miss, EmptyDict, 0, FALSE)
    /\ lookups = 0
    /\ watched = normalize_company_name(<<"a">>)
    /\ putLog = NoPuts
    /\ lastFetch = -1
    /\ NoInstances
    /\ NoExtras

\* The name grows by one piece.
TypePiece(piece) ==
    /\ Len(company_name) + Len(piece) <= MaxNameLen
    /\ company_name' = company_name \o piece
    /\ ret' = Ret("none", Miss, EmptyDict, 0, FALSE)
    /\ UNCHANGED <<phase, enabled, ttl_hours, cache_data, file, now, lookups, watched,
                   putLog, lastFetch>>
    /\ UNCHANGED cvars
    /\ UNCHANGED evars

\* normalize_company_name(company_name)
Normalize ==
    /\ ret.op = "none"
    /\ ret' = Ret("normalize", normalize_company_name(company_name), EmptyDict, 0, FALSE)
    /\ UNCHANGED <<phase, enabled, ttl_hours, cache_data, file, now, company_name, lookups,
                   watched, putLog, lastFetch>>
    /\ UNCHANGED cvars
    /\ UNCHANGED evars

NextNorm ==
    \/ \E piece \in NamePieces : TypePiece(piece)
    \/ Normalize

SpecNorm == InitNorm /\ [][NextNorm]_vars

\* ------------------------------------- extract_financial_data: columns

\* list(range(a, b))
PyRange(a, b) == [i \in 1..(IF b > a THEN b - a ELSE 0) |-> a + i - 1]

\* seq[:k], taken where seq[-k:] is meant
PySliceLast_First(seq, k) ==
    IF k >= Len(seq) THEN seq ELSE SubSeq(seq, 1, k)

\* seq[-k:] for k >= 0.  -0 is 0, so seq[-0:] is seq[0:], the whole list.
PySliceLast(seq, k) ==
    IF k = 0 \/ k >= Len(seq) THEN seq
    ELSE SubSeq(seq, Len(seq) - k + 1, Len(seq))

\* sorted(set(seq))
RECURSIVE SortedOf(_)
SortedOf(S) ==
    IF S = {} THEN <<>>
    ELSE LET least == CHOOSE x \in S : \A y \in S : x <= y
         IN  <<least>> \o SortedOf(S \ {least})
SeqSet(seq) == {seq[i] : i \in 1..Len(seq)}

\* The texts of header cells.
HdrParticulars == <<"P", "a", "r", "t", "i", "c", "u", "l", "a", "r", "s">>
HdrTTM == <<"T", "T", "M">>
HdrPaddedTtm == <<" ", "T", "t", "m", " ">>
Hdr2020 == <<"2", "0", "2", "0">>
Hdr2021 == <<"2", "0", "2", "1">>
Hdr2022 == <<"2", "0", "2", "2">>
Hdr2023 == <<"2", "0", "2", "3">>
HdrQ(n) == <<"Q", n>>
Headers == {HdrParticulars, HdrTTM, HdrPaddedTtm, Hdr2020}
\* The six sections of constants.py, and one of another kind.
SectionIds ==
    {"quarters", "profit-loss", "balance-sheet", "cash-flow", "ratios", "shareholding",
     "peers"}
ProfitLossKind == {"profit-loss", "balance-sheet", "cash-flow", "ratios"}

\* th.get_text(strip=True).upper() == 'TTM'
IsTtm(th) == StrUpper(StrStrip(th)) = <<"T", "T", "M">>

\* ttm_index: the index of the first TTM header, NoIndex for None.
NoIndex == 0 - 1
TtmIndex(headers) ==
    IF \E i \in 1..Len(headers) : IsTtm(headers[i])
    THEN (CHOOSE i \in 1..Len(headers) :
              IsTtm(headers[i]) /\ \A j \in 1..(i - 1) : ~IsTtm(headers[j])) - 1
    ELSE NoIndex

\* A selection with a floor of 0, not 1, on the start of the range.
QuartersColumns_FloorZero(total, maxq) ==
    <<0>> \o PyRange(IF total - maxq > 0 THEN total - maxq ELSE 0, total)

\* [0] + list(range(max(1, len(ths) - max_quarters), len(ths)))
QuartersColumns(total, maxq) ==
    <<0>> \o PyRange(IF total - maxq > 1 THEN total - maxq ELSE 1, total)

\* A selection that takes TTM for a year column like the others.
YearsColumns_TtmAsYear(headers, maxy) ==
    SortedOf(SeqSet(<<0>> \o PySliceLast(PyRange(1, Len(headers)), maxy)))

\* The branch of profit-loss, balance-sheet, cash-flow and ratios.
YearsColumns(headers, maxy) ==
    LET ttm_index == TtmIndex(headers)
        kept == IF ttm_index # NoIndex THEN <<0, ttm_index>> ELSE <<0>>
        year_cols == SelectSeq(PyRange(1, Len(headers)), LAMBDA i : i # ttm_index)
    IN  SortedOf(SeqSet(kept \o PySliceLast(year_cols, maxy)))

\* A selection that takes every other section for a quarters section.
ColumnsToKeep_QuartersElse(sec, headers, maxy, maxq) ==
    IF sec \in ProfitLossKind THEN YearsColumns(headers, maxy)
    ELSE QuartersColumns(Len(headers), maxq)

\* columns_to_keep of a data table of the section sec
ColumnsToKeep(sec, headers, maxy, maxq) ==
    IF sec = "quarters" THEN QuartersColumns(Len(headers), maxq)
    ELSE IF sec \in ProfitLossKind THEN YearsColumns(headers, maxy)
    ELSE PyRange(0, Len(headers))

\* An entry of html_parts: a piece of markup, and for an element the text
\* put between its tags.
Tok(tag, text) == [tag |-> tag, text |-> text]
Tag(tag) == Tok(tag, <<>>)
\* get_text(strip=True) of an element that holds one text
GetText(t) == StrStrip(t)

\* for i in columns_to_keep: if i < len(ths): <th>...</th>
HeaderCells(cols, headers) ==
    LET kept == SelectSeq(cols, LAMBDA i : i < Len(headers))
    IN  [j \in 1..Len(kept) |-> Tok("th", GetText(headers[kept[j] + 1]))]

\* A row that keeps its empty cells whatever aggressive is.
RowCells_EmptyKept(cols, tds, aggr) ==
    LET kept == SelectSeq(cols, LAMBDA i : i < Len(tds))
    IN  [j \in 1..Len(kept) |-> Tok("td", GetText(tds[kept[j] + 1]))]

\* for i in columns_to_keep: if i < len(tds):
\*     if not (aggressive and not cell_text): <td>...</td>
RowCells(cols, tds, aggr) ==
    LET kept == SelectSeq(cols, LAMBDA i :
                    /\ i < Len(tds)
                    /\ ~(aggr /\ GetText(tds[i + 1]) = <<>>))
    IN  [j \in 1..Len(kept) |-> Tok("td", GetText(tds[kept[j] + 1]))]

\* for tr in tbody.find_all('tr'): <tr> the cells </tr>
RECURSIVE BodyRows(_, _, _)
BodyRows(cols, rows, aggr) ==
    IF rows = <<>> THEN <<>>
    ELSE <<Tag("<tr>")>> \o RowCells(cols, Head(rows), aggr) \o <<Tag("</tr>")>>
         \o BodyRows(cols, Tail(rows), aggr)

\* A table of class data-table: its thead, None or the header cells, and
\* its tbody, None or the rows.
DataTableOf(thead, body) == [thead |-> thead, tbody |-> body]

\* What one data table of the section sec adds to html_parts.  Without a thead
\* nothing of the table is emitted between <table> and </table>, the body
\* being looked for under "if thead".
DataTable(sec, table, maxy, maxq, aggr) ==
    LET cols == ColumnsToKeep(sec, table.thead.val, maxy, maxq)
    IN  <<Tag("<table>")>>
        \o (IF table.thead.some
            THEN <<Tag("<thead><tr>")>> \o HeaderCells(cols, table.thead.val)
                 \o <<Tag("</tr></thead>")>>
                 \o (IF table.tbody.some
                     THEN <<Tag("<tbody>")>> \o BodyRows(cols, table.tbody.val, aggr)
                          \o <<Tag("</tbody>")>>
                     ELSE <<>>)
            ELSE <<>>)
        \o <<Tag("</table>")>>

\* The tables of the two scenarios.
RatiosScenario == <<HdrParticulars, HdrTTM, Hdr2020, Hdr2021, Hdr2022, Hdr2023>>
QuartersScenario ==
    <<HdrParticulars, HdrQ("1"), HdrQ("2"), HdrQ("3"), HdrQ("4"), HdrQ("5")>>

InitExtract ==
    /\ phase = "new"
    /\ enabled = FALSE
    /\ ttl_hours = 0
    /\ cache_data = EmptyCache
    /\ file = NoFile
    /\ now = 0
    /\ company_name = <<"a">>
    /\ ret = Ret("none", Miss, EmptyDict, 0, FALSE)
    /\ lookups = 0
    /\ watched = normalize_company_name(<<"a">>)
    /\ putLog = NoPuts
    /\ lastFetch = -1
    /\ NoInstances
    /\ cret = [p \in Procs |-> {}]
    /\ held = NoHold
    /\ ths \in {<<>>, RatiosScenario, QuartersScenario}
    /\ section_id = "none"
    /\ max_years = 0
    /\ max_quarters = 0
    /\ columns_to_keep = NotRun
    /\ NoReduction

\* The table of the page has one more header cell.
AddHeader(th) ==
    /\ columns_to_keep = NotRun
    /\ Len(ths) < MaxCols
    /\ ths' = Append(ths, th)
    /\ UNCHANGED <<section_id, max_years, max_quarters, columns_to_keep, cret, held, rvars>>
    /\ UNCHANGED svars
    /\ UNCHANGED cvars

\* extract_financial_data(html, max_years = maxy, max_quarters = maxq,
\* aggressive = aggr) on the table with the header cells ths and the body rows
\* tbody, which is in the section sec
Extract(sec, maxy, maxq, aggr) ==
    /\ columns_to_keep = NotRun
    /\ section_id' = sec
    /\ max_years' = maxy
    /\ max_quarters' = maxq
    /\ aggressive' = aggr
    /\ columns_to_keep' = ColumnsToKeep(sec, ths, maxy, maxq)
    /\ html_parts' = DataTable(sec, DataTableOf(Some(ths), Some(tbody)), maxy, maxq, aggr)
    /\ UNCHANGED <<ths, tbody, cret, held, html_content, include_sections, calls, params, job>>
    /\ UNCHANGED svars
    /\ UNCHANGED cvars

\* The table has no body row here, so that aggressive has nothing to act on.
NextExtract ==
    \/ \E th \in Headers : AddHeader(th)
    \/ \E sec \in SectionIds, maxy \in 0..MaxKeep, maxq \in 0..MaxKeep :
            Extract(sec, maxy, maxq, FALSE)

SpecExtract == InitExtract /\ [][NextExtract]_vars

\* ------------------------------------------------------------------ the body rows of a table

\* The texts of body cells.
CellSales == <<"S", "a", "l", "e", "s">>
CellEmpty == <<>>
Cell120 == <<"1", "2", "0">>
CellBlank == <<" ">>
CellPadded == <<" ", "7", " ">>
\* The row of the aggressive-mode scenario, a row shorter and a row longer
\* than the headers, and a row without cells.
ScenarioRow == <<CellSales, CellEmpty, Cell120>>
ShortRow == <<CellSales>>
LongRow == <<CellSales, CellPadded, CellBlank, Cell120, Cell120>>
EmptyRow == <<>>
Rows == {ScenarioRow, ShortRow, LongRow, EmptyRow}
\* A thead without th cells, and theads of one, three and four of them.
HeaderRows ==
    {<<>>, <<HdrParticulars>>, <<HdrParticulars, Hdr2020, Hdr2021>>,
     <<HdrParticulars, HdrPaddedTtm, Hdr2020, Hdr2021>>}

InitRows ==
    /\ phase = "new"
    /\ enabled = FALSE
    /\ ttl_hours = 0
    /\ cache_data = EmptyCache
    /\ file = NoFile
    /\ now = 0
    /\ company_name = <<"a">>
    /\ ret = Ret("none", Miss, EmptyDict, 0, FALSE)
    /\ lookups = 0
    /\ watched = normalize_company_name(<<"a">>)
    /\ putLog = NoPuts
    /\ lastFetch = -1
    /\ NoInstances
    /\ cret = [p \in Procs |-> {}]
    /\ held = NoHold
    /\ ths \in HeaderRows
    /\ section_id = "none"
    /\ max_years = 0
    /\ max_quarters = 0
    /\ columns_to_keep = NotRun
    /\ NoReduction

\* The table of the page has one more body row.
AddRow(tds) ==
    /\ columns_to_keep = NotRun
    /\ Len(tbody) < MaxRows
    /\ tbody' = Append(tbody, tds)
    /\ UNCHANGED <<ths, section_id, max_years, max_quarters, columns_to_keep, cret, held>>
    /\ UNCHANGED <<aggressive, html_parts, html_content, include_sections, calls, params, job>>
    /\ UNCHANGED svars
    /\ UNCHANGED cvars

NextRows ==
    \/ \E tds \in Rows : AddRow(tds)
    \/ \E sec \in SectionIds, maxy \in 0..MaxKeep, maxq \in 0..MaxKeep, aggr \in BOOLEAN :
            Extract(sec, maxy, maxq, aggr)

SpecRows == InitRows /\ [][NextRows]_vars

\* ------------------------------------------------------------------ a whole page

\* VALID_SECTIONS, and DEFAULT_SECTIONS, a copy of it.
VALID_SECTIONS ==
    <<"quarters", "profit-loss", "balance-sheet", "cash-flow", "ratios", "shareholding">>
DEFAULT_SECTIONS == VALID_SECTIONS

\* The default taken whatever include_sections is.
SectionsToKeep_Default(incl) == DEFAULT_SECTIONS

\* The default taken from the call before when include_sections is None.
SectionsToKeep_Remembered(incl) ==
    IF incl.some THEN incl.val
    ELSE IF include_sections.some THEN include_sections.val ELSE DEFAULT_SECTIONS

\* sections_to_keep = include_sections if include_sections is not None
\*                    else DEFAULT_SECTIONS
SectionsToKeep(incl) == IF incl.some THEN incl.val ELSE DEFAULT_SECTIONS

\* <li>text</li> for each li of a list of pros or cons
ListItems(lis) == [j \in 1..Len(lis) |-> Tok("li", GetText(lis[j]))]

\* The li of ul#top-ratios that have both span.name and span.value, each as
\* "name: value".
RatioItems(lis) ==
    LET both == SelectSeq(lis, LAMBDA li : li.name.some /\ li.value.some)
    IN  [j \in 1..Len(both) |->
            Tok("li", GetText(both[j].name.val) \o <<":", " ">> \o GetText(both[j].value.val))]

\* The company name, Key Ratios, About and Pros/Cons blocks of the page.
RootParts(doc) ==
    (IF doc.h1.some THEN <<Tok("h1", GetText(doc.h1.val))>> ELSE <<>>)
    \o (IF doc.top_ratios.some
        THEN <<Tag("<h2>Key Ratios</h2><ul>")>> \o RatioItems(doc.top_ratios.val)
             \o <<Tag("</ul>")>>
        ELSE <<>>)
    \o (IF doc.about.some
        THEN <<Tag("<h2>About</h2>"), Tok("p", GetText(doc.about.val))>>
        ELSE <<>>)
    \o (IF doc.pros.some \/ doc.cons.some
        THEN <<Tag("<h2>Analysis</h2>")>>
             \o (IF doc.pros.some
                 THEN <<Tag("<h3>Pros</h3><ul>")>> \o ListItems(doc.pros.val) \o <<Tag("</ul>")>>
                 ELSE <<>>)
             \o (IF doc.cons.some
                 THEN <<Tag("<h3>Cons</h3><ul>")>> \o ListItems(doc.cons.val) \o <<Tag("</ul>")>>
                 ELSE <<>>)
        ELSE <<>>)

\* soup.find('section', id=section_id): the first section of that id, or None
FindSection(doc, id) ==
    IF \E i \in 1..Len(doc.sections) : doc.sections[i].id = id
    THEN Some(doc.sections[CHOOSE i \in 1..Len(doc.sections) :
                  /\ doc.sections[i].id = id
                  /\ \A j \in 1..(i - 1) : doc.sections[j].id # id])
    ELSE PyNone

RECURSIVE DataTables(_, _, _, _, _)
DataTables(sec, tables, maxy, maxq, aggr) ==
    IF tables = <<>> THEN <<>>
    ELSE DataTable(sec, Head(tables), maxy, maxq, aggr)
         \o DataTables(sec, Tail(tables), maxy, maxq, aggr)

\* The tables of class ranges-table, every row and cell of them kept.
RECURSIVE GrowthRows(_)
GrowthRows(rows) ==
    IF rows = <<>> THEN <<>>
    ELSE <<Tag("<tr>")>> \o [j \in 1..Len(Head(rows)) |-> Tok("td", GetText(Head(rows)[j]))]
         \o <<Tag("</tr>")>> \o GrowthRows(Tail(rows))
RECURSIVE GrowthTables(_)
GrowthTables(tables) ==
    IF tables = <<>> THEN <<>>
    ELSE <<Tag("<table>")>> \o GrowthRows(Head(tables)) \o <<Tag("</table>")>>
         \o GrowthTables(Tail(tables))

\* What the section found under the id sec adds to html_parts.
SectionParts(sec, section, maxy, maxq, aggr) ==
    (IF section.h2.some THEN <<Tok("h2", GetText(section.h2.val))>> ELSE <<>>)
    \o DataTables(sec, section.tables, maxy, maxq, aggr)
    \o (IF section.growth # <<>>
        THEN <<Tag("<h3>Growth Metrics</h3>")>> \o GrowthTables(section.growth)
        ELSE <<>>)

\* for section_id in sections_to_keep: the section, if the page has it
RECURSIVE SectionsParts(_, _, _, _, _)
SectionsParts(doc, keep, maxy, maxq, aggr) ==
    IF keep = <<>> THEN <<>>
    ELSE LET section == FindSection(doc, Head(keep))
         IN  (IF section.some
              THEN SectionParts(Head(keep), section.val, maxy, maxq, aggr)
              ELSE <<>>)
             \o SectionsParts(doc, Tail(keep), maxy, maxq, aggr)

\* extract_financial_data(html_content, max_years, max_quarters,
\* include_sections, aggressive): the list html_parts, which the function
\* returns joined.
ExtractFinancialData(doc, maxy, maxq, incl, aggr) ==
    <<Tag("<html><body>")>>
    \o RootParts(doc)
    \o SectionsParts(doc, SectionsToKeep(incl), maxy, maxq, aggr)
    \o <<Tag("</body></html>")>>

\* The pages of the model.  Each section has a title of its own.
TitleOf(id) ==
    CASE id = "quarters" -> <<"Q">>
      [] id = "profit-loss" -> <<"P", "L">>
      [] id = "balance-sheet" -> <<"B", "S">>
      [] id = "cash-flow" -> <<"C", "F">>
      [] id = "ratios" -> <<"R">>
      [] id = "shareholding" -> <<"S", "H">>
      [] OTHER -> <<"P", "E">>
SmallTable ==
    DataTableOf(Some(<<HdrParticulars, HdrTTM, Hdr2020, Hdr2021>>),
                Some(<<ScenarioRow, <<CellSales, CellPadded, Cell120, Cell120>> >>))
GrowthTable == << <<CellSales, Cell120>> >>
SectionOf(id) ==
    [id |-> id, h2 |-> Some(TitleOf(id)), tables |-> <<SmallTable>>,
     growth |-> IF id = "profit-loss" THEN <<GrowthTable>> ELSE <<>>]
RatioLi == [name |-> Some(<<"P", "E">>), value |-> Some(<<" ", "7", " ">>)]
RatioLiNoValue == [name |-> Some(<<"P", "E">>), value |-> PyNone]
\* A page with every root block and the six sections, out of their canonical
\* order, with one more of another kind.
PageFull ==
    [h1 |-> Some(<<" ", "A", "c", "m", "e">>),
     top_ratios |-> Some(<<RatioLi, RatioLiNoValue>>),
     about |-> Some(<<"a", "b", "c">>),
     pros |-> Some(<< <<"p">> >>),
     cons |-> Some(<< <<"c">> >>),
     sections |-> <<SectionOf("peers"), SectionOf("ratios"), SectionOf("shareholding"),
                    SectionOf("quarters"), SectionOf("cash-flow"),
                    SectionOf("balance-sheet"), SectionOf("profit-loss")>>]
\* A page with cons only and two sections.
PageCons ==
    [h1 |-> PyNone, top_ratios |-> PyNone, about |-> PyNone, pros |-> PyNone,
     cons |-> Some(<< <<"c">> >>),
     sections |-> <<SectionOf("ratios"), SectionOf("quarters")>>]
\* A page with a title and no section.
PageTitle ==
    [h1 |-> Some(<<"A", "c", "m", "e">>), top_ratios |-> PyNone, about |-> PyNone,
     pros |-> PyNone, cons |-> PyNone, sections |-> <<>>]
Pages == {PageFull, PageCons, PageTitle, BlankPage}
\* The values of include_sections.
Includes ==
    {PyNone, Some(<<>>), Some(<<"ratios", "quarters">>), Some(<<"quarters", "ratios">>),
     Some(<<"shareholding", "peers", "profit-loss">>), Some(<<"ratios", "ratios">>)}

\* One call of extract_financial_data, with its arguments and what it returned.
Call(doc, maxy, maxq, incl, aggr, returned) ==
    [html_content |-> doc, max_years |-> maxy, max_quarters |-> maxq,
     include_sections |-> incl, aggressive |-> aggr, returned |-> returned]

InitReduce ==
    /\ phase = "new"
    /\ enabled = FALSE
    /\ ttl_hours = 0
    /\ cache_data = EmptyCache
    /\ file = NoFile
    /\ now = 0
    /\ company_name = <<"a">>
    /\ ret = Ret("none", Miss, EmptyDict, 0, FALSE)
    /\ lookups = 0
    /\ watched = normalize_company_name(<<"a">>)
    /\ putLog = NoPuts
    /\ lastFetch = -1
    /\ NoInstances
    /\ cret = [p \in Procs |-> {}]
    /\ held = NoHold
    /\ ths = <<>>
    /\ section_id = "none"
    /\ max_years = 0
    /\ max_quarters = 0
    /\ columns_to_keep = NotRun
    /\ tbody = <<>>
    /\ aggressive = FALSE
    /\ html_parts = <<>>
    /\ html_content \in Pages
    /\ include_sections = PyNone
    /\ calls = <<>>
    /\ params = NoParams
    /\ job = NoJob

\* extract_financial_data(html_content, max_years = maxy, max_quarters = maxq,
\* include_sections = incl, aggressive = aggr)
Reduce(maxy, maxq, incl, aggr) ==
    /\ html_parts' = ExtractFinancialData(html_content, maxy, maxq, incl, aggr)
    /\ max_years' = maxy
    /\ max_quarters' = maxq
    /\ include_sections' = incl
    /\ aggressive' = aggr
    /\ calls' = Append(calls, Call(html_content, maxy, maxq, incl, aggr, html_parts'))
    /\ UNCHANGED <<html_content, ths, tbody, section_id, columns_to_keep, cret, held,
                   params, job>>
    /\ UNCHANGED svars
    /\ UNCHANGED cvars

\* One call on a page.
NextReduce ==
    /\ calls = <<>>
    /\ \E maxy \in 0..MaxKeep, maxq \in 0..MaxKeep, incl \in Includes, aggr \in BOOLEAN :
            Reduce(maxy, maxq, incl, aggr)

SpecReduce == InitReduce /\ [][NextReduce]_vars

\* ------------------------------------------------------------------ calls one after another

\* Another page is at hand.
LoadPage(doc) ==
    /\ html_content # doc
    /\ html_content' = doc
    /\ UNCHANGED <<ths, tbody, section_id, max_years, max_quarters, aggressive,
                   columns_to_keep, html_parts, include_sections, calls, cret, held,
                   params, job>>
    /\ UNCHANGED svars
    /\ UNCHANGED cvars

TwicePages == {PageCons, PageTitle}
TwiceIncludes == {PyNone, Some(<<"ratios", "quarters">>)}
InitTwice == InitReduce /\ html_content \in TwicePages

\* At most MaxCalls calls, on either page, the cache being constructed and
\* written to in between.
NextTwice ==
    \/ /\ Len(calls) < MaxCalls
       /\ \E incl \in TwiceIncludes, aggr \in BOOLEAN : Reduce(1, 1, incl, aggr)
    \/ \E doc \in TwicePages : LoadPage(doc)
    \/ Construct(TRUE, 1)
    \/ Put(<<"a">>, "q1", <<"r1">>)

SpecTwice == InitTwice /\ [][NextTwice]_vars

\* ------------------------------------------------------------------ perform_analysis

\* The value of params.sections: None, a string, a list of strings, or a value
\* of another type, here an integer.  A string is a sequence of pieces: a
\* word, a comma or a space.
NoneArg == [type |-> "none", str |-> <<>>, list |-> <<>>, int |-> 0]
StrArg(s) == [type |-> "str", str |-> s, list |-> <<>>, int |-> 0]
ListArg(l) == [type |-> "list", str |-> <<>>, list |-> l, int |-> 0]
IntArg(n) == [type |-> "int", str |-> <<>>, list |-> <<>>, int |-> n]

\* if sections_arg: None, "", [] and 0 are false
Truthy(arg) ==
    \/ arg.type = "str" /\ arg.str # <<>>
    \/ arg.type = "list" /\ arg.list # <<>>
    \/ arg.type = "int" /\ arg.int # 0

\* s.split(',')
RECURSIVE SplitComma(_)
SplitComma(s) ==
    IF \E i \in 1..Len(s) : s[i] = ","
    THEN LET i == CHOOSE i \in 1..Len(s) : s[i] = "," /\ \A j \in 1..(i - 1) : s[j] # ","
         IN  <<SubSeq(s, 1, i - 1)>> \o SplitComma(SubSeq(s, i + 1, Len(s)))
    ELSE <<s>>

\* [s.strip() for s in ...]
StripAll(names) == [j \in 1..Len(names) |-> StrStrip(names[j])]

\* The names of VALID_SECTIONS as strings: one word each.
ValidNames == {<<VALID_SECTIONS[j]>> : j \in 1..Len(VALID_SECTIONS)}

\* The parsing and validation of params.sections: raised when SystemExit(1)
\* is, and include_sections otherwise.
ParseSections(arg) ==
    IF ~Truthy(arg) THEN [raised |-> FALSE, include_sections |-> PyNone]
    ELSE IF arg.type \notin {"str", "list"} THEN [raised |-> TRUE, include_sections |-> PyNone]
    ELSE LET names == IF arg.type = "str" THEN StripAll(SplitComma(arg.str))
                      ELSE StripAll(arg.list)
         IN  IF \E j \in 1..Len(names) : names[j] \notin ValidNames
             THEN [raised |-> TRUE, include_sections |-> PyNone]
             ELSE [raised |-> FALSE, include_sections |-> Some(names)]

\* The section ids of validated names.
SectionIdsOf(incl) ==
    IF incl.some THEN Some([j \in 1..Len(incl.val) |-> incl.val[j][1]]) ELSE PyNone

\* The registry PROMPTS, with short texts in place of the prompts.
PROMPTS == {"aswath-damodaran", "warren-buffet"}
PromptText(name) ==
    IF name = "aswath-damodaran" THEN <<"a", "n", "a", "l", "y", "s", "e", ":">>
    ELSE <<"b", "u", "y", ":">>

\* len(''.join(html_parts))
TokLen(t) ==
    IF t.tag \in {"h1", "h2", "li", "th", "td"} THEN 9 + Len(t.text)
    ELSE IF t.tag = "p" THEN 7 + Len(t.text)
    ELSE Len(t.tag)
RECURSIVE TextLen(_)
TextLen(parts) == IF parts = <<>> THEN 0 ELSE TokLen(Head(parts)) + TextLen(Tail(parts))

\* CHARS_PER_TOKEN_CONSERVATIVE = 2.5 and CHARS_PER_TOKEN_PLAIN_TEXT = 4.0, each
\* as the fraction <<numerator, denominator>> the float holds exactly.
CHARS_PER_TOKEN_CONSERVATIVE == <<5, 2>>
CHARS_PER_TOKEN_PLAIN_TEXT == <<4, 1>>

\* The bits of the significand of a Python float.
MantissaBits == 53
RECURSIVE Log2(_)
Log2(n) == IF n <= 1 THEN 0 ELSE 1 + Log2(n \div 2)

\* int(x / y) for the floats x / y = num / den: the division gives the float
\* nearest to the quotient, and int() cuts it to its integer part.  With
\* n = floor(num / den) and a remainder r > 0 the nearest float is n + 1 when
\* n + 1 - num / den is at most half the spacing 2^(e - 52) of the floats at
\* the quotient, e = Log2(n), which is (den - r) * 2^(53 - e) <= den; a
\* quotient below 1 never reaches 1 for the denominators here.
FloatQuotientInt(num, den) ==
    LET n == num \div den
        r == num % den
    IN  IF r = 0 THEN n
        ELSE IF n >= 1 /\ MantissaBits - Log2(n) <= Log2(den \div (den - r)) THEN n + 1
        ELSE n

\* An estimate that rounds the quotient to the nearest integer.
EstimateTokens_Nearest(len, conservative) ==
    LET cpt == IF conservative THEN CHARS_PER_TOKEN_CONSERVATIVE
               ELSE CHARS_PER_TOKEN_PLAIN_TEXT
    IN  (2 * len * cpt[2] + cpt[1]) \div (2 * cpt[1])

\* estimate_tokens: int(len(text) / chars_per_token)
EstimateTokens(len, conservative) ==
    LET cpt == IF conservative THEN CHARS_PER_TOKEN_CONSERVATIVE
               ELSE CHARS_PER_TOKEN_PLAIN_TEXT
    IN  FloatQuotientInt(len * cpt[2], cpt[1])

\* A check that takes a total of exactly nine tenths of the limit for near.
Classify_NearFromNineTenths(total_tokens, max_context) ==
    IF total_tokens > max_context THEN "over"
    ELSE IF 10 * total_tokens >= 9 * max_context THEN "near"
    ELSE "within"

\* A check that takes a total equal to the limit for within.
Classify_WithinAtLimit(total_tokens, max_context) ==
    IF total_tokens > max_context THEN "over"
    ELSE IF 10 * total_tokens > 9 * max_context /\ total_tokens < max_context THEN "near"
    ELSE "within"

\* The pre-flight validation: which of the three messages is printed.
\* max_context * 0.9 is a float; for the integers below 2^53 comparing
\* total_tokens with it gives what comparing 10 * total_tokens with
\* 9 * max_context gives.
Classify(total_tokens, max_context) ==
    IF total_tokens > max_context THEN "over"
    ELSE IF 10 * total_tokens > 9 * max_context THEN "near"
    ELSE "within"

\* The requests of the model.
SectionsArgs ==
    {NoneArg, StrArg(<<>>), StrArg(<<"ratios", ",", "quarters">>),
     StrArg(<<" ", "ratios", " ", ",", "quarters">>), StrArg(<<"ratios", ",", "bogus">>),
     StrArg(<<"ratios", ",">>), StrArg(<<" ">>),
     ListArg(<< <<"shareholding">>, <<" ", "ratios">> >>), ListArg(<< <<"bogus">> >>),
     ListArg(<<>>), IntArg(5), IntArg(0)}
PromptNames == {"aswath-damodaran", "nobody"}
Requests ==
    [sections : SectionsArgs, max_years : {1}, max_quarters : {1}, aggressive : {FALSE},
     prompt_name : PromptNames, max_context : 0..MaxContext, preview : BOOLEAN,
     api_key : BOOLEAN]
\* A page with a title of n letters and nothing else.
TitledPage(n) == [BlankPage EXCEPT !.h1 = Some([i \in 1..n |-> "a"])]

JobUnchanged ==
    /\ UNCHANGED <<ths, tbody, section_id, max_years, max_quarters, aggressive,
                   columns_to_keep, html_parts, include_sections, calls, cret, held>>
    /\ UNCHANGED svars
    /\ UNCHANGED cvars

\* perform_analysis(params) with the page given as params.html_content
Request(p, doc) ==
    /\ job.pc = "none"
    /\ params' = p
    /\ html_content' = doc
    /\ job' = [job EXCEPT !.pc = "sections"]
    /\ JobUnchanged

\* perform_analysis(params) without html_file, html_content or company
RequestNoInput ==
    /\ job.pc = "none"
    /\ job' = [job EXCEPT !.pc = "done", !.result = "exit"]
    /\ UNCHANGED <<params, html_content>>
    /\ JobUnchanged

\* include_sections is parsed from params.sections and validated
Sections ==
    /\ job.pc = "sections"
    /\ LET o == ParseSections(params.sections)
       IN  job' = IF o.raised
                  THEN [job EXCEPT !.pc = "done", !.result = "exit"]
                  ELSE [job EXCEPT !.pc = "extract", !.include_sections = o.include_sections]
    /\ UNCHANGED <<params, html_content>>
    /\ JobUnchanged

\* financial_data = extract_financial_data(...)
ExtractData ==
    /\ job.pc = "extract"
    /\ job' = [job EXCEPT
                !.pc = "estimate",
                !.financial_data =
                    Some(ExtractFinancialData(html_content, params.max_years,
                            params.max_quarters, SectionIdsOf(job.include_sections),
                            params.aggressive))]
    /\ UNCHANGED <<params, html_content>>
    /\ JobUnchanged

\* prompt = get_prompt(prompt_name), and the token estimates
Estimate ==
    /\ job.pc = "estimate"
    /\ job' = IF params.prompt_name \notin PROMPTS
              THEN [job EXCEPT !.pc = "done", !.result = "exit"]
              ELSE LET prompt == PromptText(params.prompt_name)
                       system_tokens == EstimateTokens(Len(prompt), FALSE)
                       data_tokens == EstimateTokens(TextLen(job.financial_data.val), TRUE)
                   IN  [job EXCEPT !.pc = "preflight",
                                   !.prompt = Some(prompt),
                                   !.system_tokens = system_tokens,
                                   !.data_tokens = data_tokens,
                                   !.total_tokens = system_tokens + data_tokens]
    /\ UNCHANGED <<params, html_content>>
    /\ JobUnchanged

\* A pre-flight validation that ends the request when the total is over the
\* limit.
Preflight_AbortWhenOver ==
    /\ job.pc = "preflight"
    /\ LET status == Classify(job.total_tokens, params.max_context)
       IN  job' = IF status = "over"
                  THEN [job EXCEPT !.pc = "done", !.status = status, !.result = "exit"]
                  ELSE [job EXCEPT !.pc = "checked", !.status = status]
    /\ UNCHANGED <<params, html_content>>
    /\ JobUnchanged

\* the pre-flight validation
Preflight ==
    /\ job.pc = "preflight"
    /\ job' = [job EXCEPT !.pc = "checked",
                          !.status = Classify(job.total_tokens, params.max_context)]
    /\ UNCHANGED <<params, html_content>>
    /\ JobUnchanged

\* preview mode: the preview is returned
Preview ==
    /\ job.pc = "checked"
    /\ params.preview
    /\ job' = [job EXCEPT !.pc = "done", !.result = "preview"]
    /\ UNCHANGED <<params, html_content>>
    /\ JobUnchanged

\* api_key = resolve_api_key(...): sys.exit(1) when there is no key
ResolveApiKey ==
    /\ job.pc = "checked"
    /\ ~params.preview
    /\ job' = IF params.api_key THEN [job EXCEPT !.pc = "analyze"]
              ELSE [job EXCEPT !.pc = "done", !.result = "exit"]
    /\ UNCHANGED <<params, html_content>>
    /\ JobUnchanged

\* analyze_with_llm(...) returns, or raises and the exception is raised again
Analyze(ok) ==
    /\ job.pc = "analyze"
    /\ job' = [job EXCEPT !.pc = "done", !.result = IF ok THEN "analysis" ELSE "raise"]
    /\ UNCHANGED <<params, html_content>>
    /\ JobUnchanged

NextJob ==
    \/ /\ job.pc = "none"
       /\ \E p \in Requests, n \in 0..MaxTitle : Request(p, TitledPage(n))
    \/ RequestNoInput
    \/ Sections
    \/ ExtractData
    \/ Estimate
    \/ Preflight
    \/ Preview
    \/ ResolveApiKey
    \/ \E ok \in BOOLEAN : Analyze(ok)

InitJob == InitReduce /\ html_content = BlankPage

SpecJob == InitJob /\ [][NextJob]_vars

\* ------------------------------------------------------------------ claims

\* What get(id, q) and get_all(id) return in the current state.
GetNow(id, q) == GetCachedResult(enabled, cache_data, file, now, ttl_hours, id, q).val
GetAllNow(id) == GetAllCachedQueries(enabled, cache_data, file, now, ttl_hours, id).val
WatchedIds == {id \in IdsLog : normalize_company_name(id) = watched}

\* The entry under k has a parsed timestamp at least ttl_hours old.
Expired(data, k) ==
    /\ k \in DOMAIN data
    /\ IsIso(data[k].timestamp)
    /\ now - FromIso(data[k].timestamp) >= ttl_hours

\* C1: in an enabled cache, for an identifier with a non-empty key, get(id, q)
\* returns the result of the most recent put(id, q, r) as long as the entry
\* has not expired since that put (the puts under the key since then were
\* less than the TTL apart and the last of them is less than the TTL ago);
\* a later put for the same query replaces the earlier result.
C1_GetReturnsLastPut ==
    (phase = "ready" /\ enabled) =>
        \A q \in Queries :
            (/\ putLog.last[q] # NoPut
             /\ putLog.since <= putLog.last[q][1]
             /\ now - LastPutTime(putLog) < ttl_hours)
            => \A id \in WatchedIds : GetNow(id, q) = putLog.last[q][2]

\* A get has just returned r2, which only q1 holds: the last put of q1 stored
\* it, over an earlier put of q1 in the same run of puts.
C1_Witness ==
    /\ enabled
    /\ ret.op = "get"
    /\ ret.val = <<"r2">>
    /\ putLog.last["q1"] # NoPut
    /\ putLog.last["q1"][2] = <<"r2">>
    /\ putLog.since < putLog.last["q1"][1]
    /\ putLog.last["q2"] = NoPut

\* C2: a get on an entry whose age is at least the TTL (age = TTL included)
\* returns a miss whatever the query, deletes that entry and no other from
\* the mapping, leaves the live file holding the mapping without it, and a
\* get_all issued next returns the empty mapping.
C2_GetExpiredRemoves ==
    [][\A id \in Ids, q \in Queries :
        LET k == normalize_company_name(id)
        IN  (Get(id, q) /\ enabled /\ Expired(cache_data, k))
            => /\ ret'.val = Miss
               /\ cache_data' = [x \in DOMAIN cache_data \ {k} |-> cache_data[x]]
               /\ file' = FileOf(JsonDump(cache_data'))
               /\ GetAllCachedQueries(enabled', cache_data', file', now', ttl_hours', id).val
                    = EmptyDict]_vars

\* A get has just removed an expired entry and written the file, exactly
\* ttl_hours after the clock started, another company's entry being kept.
C2_Witness ==
    /\ enabled
    /\ ret.op = "get"
    /\ ret.writes = 1
    /\ ret.val = Miss
    /\ ttl_hours > 0
    /\ now = ttl_hours
    /\ cache_data # EmptyCache
    /\ file = FileOf(JsonDump(cache_data))

\* C7: expiry is sliding.  Every put sets the entry's timestamp to the time of
\* that put; after puts of two different queries at t0 < t1, the first still
\* readable at t1, both are readable while now < t1 + TTL; and once the last
\* put under the key is at least the TTL ago no query of the key is readable.
C7_SlidingExpiry ==
    (phase = "ready" /\ enabled /\ LastPutTime(putLog) >= 0) =>
        /\ watched \in DOMAIN cache_data
            => cache_data[watched].timestamp = IsoFormat(LastPutTime(putLog))
        /\ \A q0, q1 \in Queries :
            (/\ q0 # q1
             /\ putLog.last[q0] # NoPut
             /\ putLog.last[q1] # NoPut
             /\ putLog.last[q0][1] < putLog.last[q1][1]
             /\ putLog.since <= putLog.last[q0][1]
             /\ now < putLog.last[q1][1] + ttl_hours)
            => \A id \in WatchedIds :
                /\ GetNow(id, q0) = putLog.last[q0][2]
                /\ GetNow(id, q1) = putLog.last[q1][2]
        /\ now >= LastPutTime(putLog) + ttl_hours
            => \A id \in WatchedIds, q \in Queries : GetNow(id, q) = Miss

\* A get has just returned the result put at t0, at a time t0 + TTL or later,
\* the other query having been put at a later time t1 with now < t1 + TTL.
C7_Witness ==
    /\ enabled
    /\ ret.op = "get"
    /\ putLog.last["q1"] # NoPut
    /\ putLog.last["q2"] # NoPut
    /\ ret.val = putLog.last["q1"][2]
    /\ putLog.last["q2"][2] # putLog.last["q1"][2]
    /\ putLog.last["q1"][1] < putLog.last["q2"][1]
    /\ putLog.since <= putLog.last["q1"][1]
    /\ now >= putLog.last["q1"][1] + ttl_hours
    /\ now < putLog.last["q2"][1] + ttl_hours

\* C8: with enabled = False every get returns a miss, every get_all the empty
\* mapping, no put stores anything, and the live file is neither created nor
\* changed, by the constructor or by any call.
C8_DisabledNoOp ==
    /\ [](phase = "ready" /\ ~enabled
            => /\ cache_data = EmptyCache
               /\ ret.val = Miss
               /\ ret.all = EmptyDict
               /\ ret.writes = 0
               /\ \A id \in Ids, q \in Queries : GetNow(id, q) = Miss
               /\ \A id \in Ids : GetAllNow(id) = EmptyDict)
    /\ [][(phase' = "ready" /\ ~enabled') => file' = file]_vars

\* A put has just returned in a disabled cache, and there is no live file.
C8_Witness ==
    /\ phase = "ready"
    /\ ~enabled
    /\ ret.op = "put"
    /\ ~file.exists

\* The timestamp is missing, unparseable, or at least ttl hours old at now.
StaleTimestamp(timestamp_str, ttl) ==
    \/ timestamp_str = NoTimestamp
    \/ timestamp_str = BadTimestamp
    \/ IsIso(timestamp_str) /\ now - FromIso(timestamp_str) >= ttl

\* C9: constructing an enabled cache keeps exactly the loaded entries whose
\* timestamp is not stale, writes the file exactly once if an entry was
\* removed and not at all otherwise; no call is served before that, and right
\* after construction the mapping holds no expired entry.
C9_StartupSweep ==
    /\ [][\A ttl \in 0..MaxTtlHours :
            Construct(TRUE, ttl) =>
                LET loaded == IF file.exists /\ IsCompleteJson(file.content)
                              THEN file.content.data ELSE EmptyCache
                    stale == {k \in DOMAIN loaded : StaleTimestamp(loaded[k].timestamp, ttl)}
                IN  /\ cache_data' = [k \in DOMAIN loaded \ stale |-> loaded[k]]
                    /\ ret'.writes = IF stale = {} THEN 0 ELSE 1
                    /\ file' = IF stale = {} THEN file ELSE FileOf(JsonDump(cache_data'))]_vars
    /\ [](phase = "new" => ret.op \in {"none", "tick"})
    /\ [](ret.op = "init" /\ enabled
            => \A k \in DOMAIN cache_data : ~StaleTimestamp(cache_data[k].timestamp, ttl_hours))

\* The constructor has just removed a stale entry, kept another and written
\* the file once.
C9_Witness ==
    /\ ret.op = "init"
    /\ enabled
    /\ ret.writes = 1
    /\ cache_data # EmptyCache
    /\ file = FileOf(JsonDump(cache_data))

\* C10: get_all(id) on an entry older than the TTL returns the empty mapping
\* and afterwards the entry is no longer in the cache.
C10_GetAllExpiredRemoves ==
    [][\A id \in Ids :
        LET k == normalize_company_name(id)
        IN  (GetAll(id) /\ enabled /\ Expired(cache_data, k))
            => /\ ret'.all = EmptyDict
               /\ k \notin DOMAIN cache_data']_vars

\* The cache holds non-expired data for the tool's company.
HoldsFresh ==
    LET k == ToolKey(company_name)
    IN  /\ k \in DOMAIN cache_data
        /\ IsIso(cache_data[k].timestamp)
        /\ now - FromIso(cache_data[k].timestamp) < ttl_hours
        /\ cache_data[k].searches # EmptyDict

\* C3: whenever the cache holds non-expired data for the tool's company, a
\* lookup, of any query, returns the cached results of the company combined
\* and makes no external search; the external search is made on a miss only.
C3_FetchOnlyOnMiss ==
    [][\A q \in Queries, r \in Results :
        (Lookup(q, r) /\ HoldsFresh)
        => /\ ~ret'.fetch
           /\ lastFetch' = lastFetch
           /\ ret'.val = <<"=== Cached">> \o cache_data[ToolKey(company_name)].searches]_vars

\* A lookup of q2 has just been served from the cache, which held one result,
\* that of q1, and q2 is now cached with the combined text.
C3_Witness ==
    /\ ret.op = "lookup"
    /\ ~ret.fetch
    /\ Len(ret.val) = 2
    /\ ret.val[2][1] = "q1"
    /\ LET k == ToolKey(company_name)
       IN  /\ k \in DOMAIN cache_data
           /\ DictHas(cache_data[k].searches, "q2")
           /\ DictGet(cache_data[k].searches, "q2") = ret.val

LiveComplete == fs.live # NoInode /\ IsCompleteJson(TextOf(inodes[fs.live]))

\* C5: under any interleaving of the instances sharing the directory and a
\* crash at any step, the live file search_cache.json either does not exist or
\* holds one complete serialization of a mapping; it is never partially
\* written.
C5_LiveFileNeverPartial ==
    fs.live = NoInode \/ LiveComplete

\* The live file holds the result r for the query q under the key k.
Persisted(k, q, r) ==
    /\ LiveComplete
    /\ LET data == JsonLoads(TextOf(inodes[fs.live]))
       IN  /\ k \in DOMAIN data
           /\ DictHas(data[k].searches, q)
           /\ DictGet(data[k].searches, q) = r

\* C6: no update is lost between two instances sharing the directory: once a
\* put under one key by one instance and a put under another key by the other
\* instance have both returned, and no instance is inside a put, the persisted
\* file contains both results.
C6_NoLostUpdate ==
    (\A p \in Procs : cpc[p] = "idle") =>
        \A p1 \in Procs, p2 \in Procs :
            \A u1 \in cdone[p1], u2 \in cdone[p2] :
                (p1 # p2 /\ u1[1] # u2[1]) =>
                    Persisted(u1[1], u1[2], u1[3]) /\ Persisted(u2[1], u2[2], u2[3])

\* C11: get_all(id) on a non-expired entry returns exactly the pairs stored
\* under normalize(id), on an absent entry an empty mapping, and the mapping
\* is a snapshot: whatever keys the caller adds, changes or removes in it,
\* everything later get and get_all calls read (the mapping in memory, the
\* file, the clock, the settings) stays as it was, so they return the same.
C11_GetAllSnapshot ==
    /\ [][\A id \in IdsLog :
            (GetAllKept(id) /\ enabled) =>
                LET k == normalize_company_name(id)
                IN  /\ cache_data' = cache_data
                    /\ k \notin DOMAIN cache_data => held'.map = EmptyDict
                    /\ (k \in DOMAIN cache_data /\ ~Expired(cache_data, k)) =>
                          held'.map = cache_data[k].searches]_vars
    /\ [][((\E q \in Queries, r \in Results : HeldSet(q, r)) \/ (\E q \in Queries : HeldDel(q))) =>
            UNCHANGED <<enabled, ttl_hours, now, cache_data, file>>]_vars

\* The caller changed the mapping it got for a live entry, and the entry still
\* holds what it held.
C11_Witness ==
    /\ phase = "ready" /\ enabled
    /\ watched \in DOMAIN cache_data
    /\ ~Expired(cache_data, watched)
    /\ cache_data[watched].searches = << <<"q1", <<"r1">> >> >>
    /\ held.map = << <<"q1", <<"r2">> >>, <<"q2", <<"r1">> >> >>

\* The live file is there and is not the JSON text of a mapping of entries.
CorruptFile(f) ==
    f.exists /\ (~IsCompleteJson(f.content) \/ ~IsMappingJson(f.content))

\* C12: whatever the live file holds (no valid JSON, unreadable, or valid JSON
\* that is not a mapping from identifiers to entries), constructing an enabled
\* cache raises nothing and the cache starts empty: every get misses.
C12_CorruptLoadNonFatal ==
    /\ ret.op # "raise"
    /\ (ret.op = "init" /\ enabled /\ CorruptFile(file)) =>
          /\ cache_data = EmptyCache
          /\ \A id \in IdsLog, q \in Queries : GetNow(id, q) = Miss


ConcGetNow(p, id, q) ==
    GetCachedResult(enabled, cmem[p], LiveFile, now, ttl_hours, id, q).val

\* C14: with two running instances on one directory, once a put of one
\* instance has stored a result, there comes a time at which a get of the
\* other instance returns it (nothing expires in these behaviours).
C14_EventuallyVisible ==
    \A p1 \in Procs, p2 \in Procs, id \in ConcIds :
        (p1 # p2) =>
            ((<<normalize_company_name(id), "q1", <<"r1">> >> \in cdone[p1] /\ cpc[p2] # "none")
                ~> (ConcGetNow(p2, id, "q1") = <<"r1">>))

\* C15: normalize is idempotent: normalizing what normalize returned gives
\* the same string.
C15_NormalizeIdempotent ==
    ret.op = "normalize" => normalize_company_name(ret.val) = ret.val

EndsWith(s, pat) ==
    /\ Len(pat) <= Len(s)
    /\ SubSeq(s, Len(s) - Len(pat) + 1, Len(s)) = pat
DropLast(s, n) == SubSeq(s, 1, Len(s) - n)
\* s without the suffix tokens that end it, each time trimmed again.
RECURSIVE TrailingTokensStripped(_)
TrailingTokensStripped(s) ==
    IF EndsWith(s, SfxLimited) THEN TrailingTokensStripped(StrStrip(DropLast(s, Len(SfxLimited))))
    ELSE IF EndsWith(s, SfxLtd) THEN TrailingTokensStripped(StrStrip(DropLast(s, Len(SfxLtd))))
    ELSE IF EndsWith(s, SfxIncorporated)
         THEN TrailingTokensStripped(StrStrip(DropLast(s, Len(SfxIncorporated))))
    ELSE IF EndsWith(s, SfxInc) THEN TrailingTokensStripped(StrStrip(DropLast(s, Len(SfxInc))))
    ELSE s

\* C16: normalize(raw) is raw uppercased and trimmed, with the suffix tokens
\* LIMITED, LTD, INCORPORATED, INC stripped where they are trailing tokens and
\* nothing else removed; the empty name gives the empty string.
C16_NormalizeStripsTrailingOnly ==
    ret.op = "normalize" =>
        ret.val = TrailingTokensStripped(StrStrip(StrUpper(company_name)))

\* The table of a call that has selected its columns.
Selected(secs) == columns_to_keep # NotRun /\ section_id \in secs
Min2(a, b) == IF a < b THEN a ELSE b

\* C17: for a quarters table with total >= 1 header columns and max_quarters
\* >= 0, the selection is index 0 and exactly min(total - 1, max_quarters)
\* further indices, the highest of the table.
C17_QuartersTail ==
    (Selected({"quarters"}) /\ Len(ths) >= 1) =>
        LET total == Len(ths)
            k == Min2(total - 1, max_quarters)
        IN  /\ columns_to_keep[1] = 0
            /\ Len(columns_to_keep) = 1 + k
            /\ SeqSet(columns_to_keep) = {0} \cup ((total - k)..(total - 1))

\* The quarters scenario: [Particulars, Q1..Q5] with max_quarters = 3 selects
\* 0, 3, 4, 5.
C17_Witness ==
    /\ Selected({"quarters"})
    /\ ths = QuartersScenario
    /\ max_quarters = 3
    /\ columns_to_keep = <<0, 3, 4, 5>>

\* The n columns that are neither column 0 nor the first TTM column, in order.
RemainingColumns == SelectSeq(PyRange(1, Len(ths)), LAMBDA i : i # TtmIndex(ths))

\* C18: for a table of the profit-loss kind and max_years >= 0, 0 included,
\* the selection is exactly 0, the first TTM column if there is one, and the
\* last min(max_years, n) of the n remaining columns, ascending, no duplicates.
C18_YearsSelection ==
    Selected(ProfitLossKind) =>
        LET n == Len(RemainingColumns)
            k == Min2(max_years, n)
            last == {RemainingColumns[i] : i \in (n - k + 1)..n}
            ttm == IF TtmIndex(ths) # NoIndex THEN {TtmIndex(ths)} ELSE {}
        IN  columns_to_keep = SortedOf({0} \cup ttm \cup last)

\* C19: for a table of the profit-loss kind with a TTM header, the index of
\* the first TTM header is selected, whatever max_years is and wherever the
\* TTM column stands.
C19_TtmAlwaysKept ==
    (Selected(ProfitLossKind) /\ \E i \in 1..Len(ths) : IsTtm(ths[i])) =>
        TtmIndex(ths) \in SeqSet(columns_to_keep)

\* The TTM column stands before three year columns of which only the last is
\* kept, and it is selected.
C19_Witness ==
    /\ Selected(ProfitLossKind)
    /\ Len(ths) = 4
    /\ ~IsTtm(ths[1]) /\ IsTtm(ths[2]) /\ ~IsTtm(ths[3]) /\ ~IsTtm(ths[4])
    /\ max_years = 1
    /\ columns_to_keep = <<0, 1, 3>>

\* The ratios scenario has been reduced with max_years = 2.
RatiosScenarioRun ==
    /\ Selected({"ratios"})
    /\ ths = RatiosScenario
    /\ max_years = 2

\* C20, as stated: the ratios table [Particulars, TTM, 2020, 2021, 2022, 2023]
\* reduced with max_years = 2 keeps exactly the columns 0, 1, 3, 4.
C20_RatiosScenarioAsStated ==
    RatiosScenarioRun => columns_to_keep = <<0, 1, 3, 4>>

\* C20, amended: the same table reduced with max_years = 2 keeps exactly the
\* columns 0, 1, 4, 5: the label column, TTM, and the last two years 2022 and
\* 2023.
C20_RatiosScenario ==
    RatiosScenarioRun => columns_to_keep = <<0, 1, 4, 5>>

C20_Witness ==
    RatiosScenarioRun /\ Len(columns_to_keep) = 4

\* ---- the rows of a reduced table

\* The header cells and the body rows that html_parts holds, as their texts.
EmittedHeader(parts) ==
    LET cells == SelectSeq(parts, LAMBDA t : t.tag = "th")
    IN  [j \in 1..Len(cells) |-> cells[j].text]
RowStarts(parts) == SortedOf({i \in 1..Len(parts) : parts[i].tag = "<tr>"})
RowEnd(parts, i) ==
    CHOOSE j \in i..Len(parts) :
        /\ parts[j].tag = "</tr>"
        /\ \A k \in i..(j - 1) : parts[k].tag # "</tr>"
EmittedRow(parts, r) ==
    LET i == RowStarts(parts)[r]
    IN  [k \in 1..(RowEnd(parts, i) - i - 1) |-> parts[i + k].text]
\* The selected indices at which the row tds emits a cell: those the row has
\* a cell at, less the empty cells when aggressive is set.
EmittingIndices(cols, tds, aggr) ==
    SelectSeq(SortedOf(SeqSet(cols)), LAMBDA i :
        /\ i < Len(tds)
        /\ ~(aggr /\ GetText(tds[i + 1]) = <<>>))
Extracted == columns_to_keep # NotRun

\* C21: the cells emitted for a body row are the row's cells at the selected
\* indices the row has a cell at (less the cells aggressive mode leaves out),
\* in ascending index order, a row shorter than a selected index emitting
\* nothing for it; and no cell is emitted at an index that is not less than
\* the number of header cells.
C21_RowFilterMirrorsColumns ==
    Extracted =>
        /\ Len(RowStarts(html_parts)) = Len(tbody)
        /\ \A r \in 1..Len(tbody) :
            LET idx == EmittingIndices(columns_to_keep, tbody[r], aggressive)
            IN  /\ EmittedRow(html_parts, r) = [j \in 1..Len(idx) |-> GetText(tbody[r][idx[j] + 1])]
                /\ \A j \in 1..Len(idx) : idx[j] < Len(ths)

\* The same for the tables whose thead has at least one th.
C21_WithHeaderCells ==
    (Extracted /\ Len(ths) >= 1) =>
        /\ Len(RowStarts(html_parts)) = Len(tbody)
        /\ \A r \in 1..Len(tbody) :
            LET idx == EmittingIndices(columns_to_keep, tbody[r], aggressive)
            IN  /\ EmittedRow(html_parts, r) = [j \in 1..Len(idx) |-> GetText(tbody[r][idx[j] + 1])]
                /\ \A j \in 1..Len(idx) : idx[j] < Len(ths)

\* C22: in a reduced table every body row has as many cells as the header
\* row has.
C22_RowsAsWideAsHeader ==
    Extracted =>
        \A r \in 1..Len(tbody) :
            Len(EmittedRow(html_parts, r)) = Len(EmittedHeader(html_parts))

\* The texts of the cells of the row tds at the selected indices it has.
SelectedTexts(cols, tds) ==
    LET sel == SelectSeq(cols, LAMBDA i : i < Len(tds))
    IN  [j \in 1..Len(sel) |-> GetText(tds[sel[j] + 1])]

C27_OtherSectionsKeepAll ==
    (Extracted /\ section_id \notin ({"quarters"} \cup ProfitLossKind)) =>
        /\ columns_to_keep = PyRange(0, Len(ths))
        /\ EmittedHeader(html_parts) = [j \in 1..Len(ths) |-> GetText(ths[j])]

\* A table of another section with more headers than max_years and
\* max_quarters would leave of it has been reduced, and has all its headers.
C27_Witness ==
    /\ Extracted
    /\ section_id \in {"shareholding", "peers"}
    /\ Len(ths) > max_years + 2
    /\ Len(ths) > max_quarters + 2
    /\ Len(EmittedHeader(html_parts)) = Len(ths)

\* ---- the reduced page

Reduced == calls # <<>>
\* The titles of the sections in html_parts, in the order they come.
SectionTitles(parts) ==
    LET titles == SelectSeq(parts, LAMBDA t : t.tag = "h2")
    IN  [j \in 1..Len(titles) |-> titles[j].text]
\* The markup of the blocks of the page root, and that of the sections.
RootTags ==
    {"h1", "<h2>Key Ratios</h2><ul>", "li", "</ul>", "<h2>About</h2>", "p",
     "<h2>Analysis</h2>", "<h3>Pros</h3><ul>", "<h3>Cons</h3><ul>"}
SectionTags ==
    {"h2", "<table>", "<thead><tr>", "th", "</tr></thead>", "<tbody>", "<tr>", "td",
     "</tr>", "</tbody>", "</table>", "<h3>Growth Metrics</h3>"}
HasTag(parts, tag) == \E i \in 1..Len(parts) : parts[i].tag = tag
HasSection(doc, id) == \E i \in 1..Len(doc.sections) : doc.sections[i].id = id

\* C24: the sections of the reduced page come in the order of
\* include_sections when it is given, and otherwise in the order quarters,
\* profit-loss, balance-sheet, cash-flow, ratios, shareholding; the company
\* name, Key Ratios, About and Pros/Cons blocks come before everything of a
\* section, and each is there when the page has it, whatever
\* include_sections, max_years, max_quarters and aggressive are.
C24_SectionOrderAndRootBlocks ==
    Reduced =>
        LET order == IF include_sections.some THEN include_sections.val
                     ELSE <<"quarters", "profit-loss", "balance-sheet", "cash-flow",
                            "ratios", "shareholding">>
            present == SelectSeq(order, LAMBDA id : HasSection(html_content, id))
        IN  /\ SectionTitles(html_parts) = [j \in 1..Len(present) |-> TitleOf(present[j])]
            /\ \A i, j \in 1..Len(html_parts) :
                    (html_parts[i].tag \in RootTags /\ html_parts[j].tag \in SectionTags)
                    => i < j
            /\ html_content.h1.some <=> HasTag(html_parts, "h1")
            /\ html_content.top_ratios.some <=> HasTag(html_parts, "<h2>Key Ratios</h2><ul>")
            /\ html_content.about.some <=> HasTag(html_parts, "<h2>About</h2>")
            /\ (html_content.pros.some \/ html_content.cons.some)
                    <=> HasTag(html_parts, "<h2>Analysis</h2>")
            /\ html_content.pros.some <=> HasTag(html_parts, "<h3>Pros</h3><ul>")
            /\ html_content.cons.some <=> HasTag(html_parts, "<h3>Cons</h3><ul>")

\* The page with every block has been reduced to ratios then quarters, in
\* aggressive mode, and the two sections come in that order after the blocks.
C24_Witness ==
    /\ Reduced
    /\ html_content = PageFull
    /\ include_sections = Some(<<"ratios", "quarters">>)
    /\ aggressive
    /\ SectionTitles(html_parts) = << <<"R">>, <<"Q">> >>
    /\ html_parts[2] = Tok("h1", <<"A", "c", "m", "e">>)
    /\ HasTag(html_parts, "<h3>Cons</h3><ul>")

\* The arguments of a call.
ArgsOf(c) ==
    <<c.html_content, c.max_years, c.max_quarters, c.include_sections, c.aggressive>>

Malformed(arg) == arg.type \notin {"none", "str", "list"}
NamesOf(arg) ==
    IF arg.type = "str" THEN StripAll(SplitComma(arg.str)) ELSE StripAll(arg.list)
UnknownName(arg) ==
    /\ arg.type \in {"str", "list"}
    /\ Truthy(arg)
    /\ \E j \in 1..Len(NamesOf(arg)) : NamesOf(arg)[j] \notin ValidNames
\* The request was ended by SystemExit before extract_financial_data was
\* called, or is about to be: nothing reduced, estimated, returned or sent.
RejectedBeforeReduction ==
    /\ job.pc \in {"sections", "done"}
    /\ job.pc = "done" => job.result = "exit"
    /\ job.financial_data = PyNone
    /\ job.total_tokens = NoTokens
    /\ job.status = "none"

\* C25: a request whose sections name something that is not one of the six
\* sections, or whose sections argument is neither a string nor a list, is
\* ended by SystemExit before extract_financial_data is called: no reduced
\* document, no token estimate, no preview and no call of analyze_with_llm.
C25_InvalidSectionsRejected ==
    (job.pc # "none" /\ (Malformed(params.sections) \/ UnknownName(params.sections)))
    => RejectedBeforeReduction

\* The same for the sections arguments that are not false.
C25_TruthyInvalidRejected ==
    (/\ job.pc # "none"
     /\ Truthy(params.sections)
     /\ (Malformed(params.sections) \/ UnknownName(params.sections)))
    => RejectedBeforeReduction

Classified == job.status # "none"

\* C28: the pre-flight check finds the total over the limit when
\* total > limit, near it when limit * 0.9 < total <= limit, and within it
\* otherwise; a total of limit + 1 is over.
C28_Classification ==
    Classified =>
        LET total == job.total_tokens
            ceiling == params.max_context
        IN  /\ job.status = "over" <=> total > ceiling
            /\ job.status = "near" <=> (9 * ceiling < 10 * total /\ total <= ceiling)
            /\ job.status = "within" <=> 10 * total <= 9 * ceiling
            /\ total = ceiling + 1 => job.status = "over"

\* A total one above the limit has been found over it, the limit being ten
\* times a whole number.
C28_Witness ==
    /\ Classified
    /\ job.total_tokens = params.max_context + 1
    /\ params.max_context = 20
    /\ job.status = "over"

\* C29, as stated: a total equal to the limit is found within it.
C29_AtLimitWithin ==
    (Classified /\ job.total_tokens = params.max_context) => job.status = "within"

\* C29, amended: a total equal to the limit is found near it (no total is 0:
\* the reduced document of an empty page has 26 characters).
C29_AtLimitNear ==
    /\ Classified => job.total_tokens > 0
    /\ (Classified /\ job.total_tokens = params.max_context) => job.status = "near"

\* A total equal to the limit has been found near it.
C29_Witness ==
    /\ Classified
    /\ job.total_tokens = params.max_context
    /\ job.status = "near"

\* C30: whatever the pre-flight check finds, it does not end the request:
\* the step after it is the return of the preview when params.preview is set,
\* and otherwise the way to analyze_with_llm, which is called whenever an API
\* key is to be had; the request ends without either only for want of a key,
\* under every classification alike.
C30_OverrunNeverFails ==
    /\ [][job.pc = "preflight" =>
            /\ job'.pc = "checked"
            /\ job'.result = "none"
            /\ job'.status \in {"within", "near", "over"}]_vars
    /\ []((Classified /\ job.pc = "done") =>
            job.result = IF params.preview THEN "preview"
                         ELSE IF ~params.api_key THEN "exit"
                         ELSE IF job.result = "raise" THEN "raise" ELSE "analysis")

\* A request over the limit has gone on to analyze_with_llm, which returned.
C30_Witness ==
    /\ job.status = "over"
    /\ job.pc = "done"
    /\ job.result = "analysis"

\* C31: an estimate is the integer part of the length divided by the density,
\* floor(len / 4) for the prompt and floor(2 * len / 5) for the document, and
\* the total is the sum of the two estimates.
C31_EstimateIsFloor ==
    job.prompt.some =>
        /\ job.system_tokens = Len(job.prompt.val) \div 4
        /\ job.data_tokens = (2 * TextLen(job.financial_data.val)) \div 5
        /\ job.total_tokens = job.system_tokens + job.data_tokens

\* A document whose length divided by 2.5 leaves the fraction 4/5 has been
\* estimated next to a prompt: the estimates are cut, not rounded.
C31_Witness ==
    /\ job.prompt.some
    /\ (2 * TextLen(job.financial_data.val)) % 5 = 4
    /\ job.data_tokens > 0
    /\ job.system_tokens > 0
    /\ job.total_tokens = job.system_tokens + job.data_tokens

\* No instance is inside a call.
Quiet == \A p \in Procs : cpc[p] \in {"none", "idle"}

\* C32: the live file is copied to the backup file before the temporary file
\* is written, a failed copy does not stop the write, the backup file is
\* removed after the rename, and once a put of the only instance has returned
\* there is neither a temporary file nor a backup file.
C32_SteadyStateClean ==
    (cpc["p1"] = "idle" /\ cpc["p2"] = "none") => (fs.tmp = NoInode /\ ~fs.bak.some)

\* The order of the steps of _save_cache: the backup file holds the live file
\* when the temporary file is opened unless the copy failed, a failed copy is
\* followed by the temporary file, and a rename is followed by the removal of
\* the backup file.
C32_StepsInOrder ==
    [][\A p \in Procs :
        /\ (ConcBackup(p) /\ fs.live # NoInode) =>
                (fs'.bak = Some(inodes[fs.live]) /\ fs'.tmp = fs.tmp /\ cpc'[p] = "open")
        /\ (\E left \in BOOLEAN : ConcBackupFails(p, left)) => cpc'[p] = "open"
        /\ (ConcRename(p) /\ fs.tmp # NoInode) => (fs'.live = fs.tmp /\ cpc'[p] = "unlink")
        /\ ConcUnlink(p) => ~fs'.bak.some]_vars

\* With no failing statement, neither file is there when no instance is
\* inside a call.
C32_CleanWithoutFailure ==
    Quiet => (fs.tmp = NoInode /\ ~fs.bak.some)

\* What get and get_all return for b once put(a, q, r) has returned, and what
\* they returned before it.
GetAfterPut(b, q) == GetCachedResult(enabled, cache_data', file', now, ttl_hours, b, q).val
GetAllAfterPut(b) == GetAllCachedQueries(enabled, cache_data', file', now, ttl_hours, b).val

\* put(a, q, r) in an enabled cache with a TTL above zero: every b with the
\* normalized form of a reads r for q and the mapping a reads; every b with
\* another non-empty normalized form reads what it read before.
PutReadUnder(a, q, r) ==
    /\ \A b \in Ids :
          normalize_company_name(b) = normalize_company_name(a) =>
              /\ GetAfterPut(b, q) = r
              /\ GetAllAfterPut(b) = GetAllAfterPut(a)
    /\ \A b \in Ids :
          normalize_company_name(b) \notin {<<>>, normalize_company_name(a)} =>
              /\ \A q2 \in Queries : GetAfterPut(b, q2) = GetNow(b, q2)
              /\ GetAllAfterPut(b) = GetAllNow(b)

\* C33 as stated: for any two identifiers a and b with the same normalized
\* form, put(a, q, r) followed by get(b, q) returns r and get_all(a) equals
\* get_all(b); a put never changes what an identifier with another non-empty
\* normalized form reads.
C33_KeyedByNormalizedAny ==
    [][\A a \in KeyPutIds, q \in Queries, r \in Results :
        (enabled /\ ttl_hours > 0 /\ ret'.op = "put" /\ Put(a, q, r))
            => PutReadUnder(a, q, r)]_vars

\* C33: the same for identifiers whose normalized form is not empty: entries
\* are keyed by the normalized identifier only.
C33_KeyedByNormalized ==
    [][\A a \in KeyPutIds, q \in Queries, r \in Results :
        (/\ enabled /\ ttl_hours > 0 /\ ret'.op = "put"
         /\ normalize_company_name(a) # <<>>
         /\ Put(a, q, r))
            => PutReadUnder(a, q, r)]_vars

\* A get under "A ltd" has returned r2, which was put under "a"; the entry of
\* "b" holds r1 only.
C33_Witness ==
    /\ enabled
    /\ ret.op = "get"
    /\ ret.val = <<"r2">>
    /\ <<"B">> \in DOMAIN cache_data
    /\ \A q \in Queries : GetNow(<<"b">>, q) # <<"r2">>
    /\ GetNow(<<"b">>, "q1") = <<"r1">>

\* The cache holds an entry for id that is younger than the TTL.
FreshEntry(id) ==
    /\ enabled
    /\ normalize_company_name(id) \in DOMAIN cache_data
    /\ ~EntryStale(cache_data[normalize_company_name(id)], now, ttl_hours)

\* C34: a get, whether the query is stored or not, and a get_all on an entry
\* younger than the TTL leave the mapping, with the entry's timestamp, and
\* the live file as they are.
C34_ReadsChangeNothing ==
    [][\A id \in Ids :
        FreshEntry(id) =>
            /\ \A q \in Queries :
                  (ret'.op = "get" /\ Get(id, q)) => UNCHANGED <<cache_data, file>>
            /\ (ret'.op = "get_all" /\ GetAll(id)) => UNCHANGED <<cache_data, file>>]_vars

\* A get has returned a stored result from an entry whose timestamp is still
\* that of an earlier hour, and wrote nothing.
C34_Witness ==
    /\ enabled
    /\ ret.op = "get"
    /\ ret.val # Miss
    /\ ret.writes = 0
    /\ watched \in DOMAIN cache_data
    /\ IsIso(cache_data[watched].timestamp)
    /\ FromIso(cache_data[watched].timestamp) < now
    /\ file = FileOf(JsonDump(cache_data))

\* What get(id, q) returns once the lookup has returned.
GetAfterLookup(id, q) ==
    GetCachedResult(enabled, cache_data', file', now, ttl_hours, id, q).val

\* C35: after the search tool has returned v for the query q, with an enabled
\* cache, a TTL above zero and a company whose normalized name is not empty,
\* get(company, q) returns v.
C35_LookupThenGet ==
    [][\A q \in Queries, fetched \in Results :
        (/\ enabled /\ ttl_hours > 0 /\ ret'.op = "lookup"
         /\ normalize_company_name(company_name) # <<>>
         /\ Lookup(q, fetched))
            => GetAfterLookup(company_name, q) = ret'.val]_vars

\* The same read under the name the tool hands to the cache, the normalized
\* company name; on a hit the value is the combined text of the results
\* cached before.
C35_UnderNormalizedName ==
    [][\A q \in Queries, fetched \in Results :
        (/\ enabled /\ ttl_hours > 0 /\ ret'.op = "lookup"
         /\ ToolKey(company_name) # <<>>
         /\ Lookup(q, fetched))
            => /\ GetAfterLookup(normalize_company_name(company_name), q) = ret'.val
               /\ ~ret'.fetch =>
                    ret'.val = CombineCached(GetAllNow(normalize_company_name(company_name)))]_vars

\* C36: a lookup made less than the TTL after the lookup before it is served
\* from the cache, makes no external search and sets the entry's timestamp to
\* its own time, however long ago the external search was made.
C36_LookupsKeepEntryFresh ==
    [][(/\ lookups' # lookups
        /\ enabled
        /\ ToolKey(company_name) = watched
        /\ LastPutTime(putLog) >= 0
        /\ now - LastPutTime(putLog) < ttl_hours)
        => /\ ~ret'.fetch
           /\ watched \in DOMAIN cache_data'
           /\ cache_data'[watched].timestamp = IsoFormat(now)]_vars

\* A lookup has been served from the cache a whole TTL or more after the only
\* external search.
C36_Witness ==
    /\ enabled
    /\ ttl_hours > 0
    /\ ToolKey(company_name) = watched
    /\ ret.op = "lookup"
    /\ ~ret.fetch
    /\ lastFetch >= 0
    /\ now >= lastFetch + ttl_hours
    /\ putLog.since = lastFetch
    /\ cache_data[watched].timestamp = IsoFormat(now)

\* C37: when the external search raises during a lookup, the exception
\* reaches the caller, the mapping and the live file are as before the lookup,
\* and a lookup made next, of any query, makes the external search again.
C37_FailedFetchLeavesCache ==
    [][\A q \in Queries :
        (ret'.op = "raise" /\ LookupRaising(q)) =>
            /\ ret'.val = ToolException
            /\ ret'.writes = 0
            /\ UNCHANGED <<cache_data, file>>
            /\ \A q2 \in Queries :
                  SearchTool(enabled, cache_data', file', now, ttl_hours, company_name,
                             q2, <<"r1">>).fetch]_vars

\* The external search has raised for a company with a cache key, in an
\* enabled cache that held an expired entry for it, after an earlier search:
\* the entry is still there, and the file holds the mapping.
C37_Witness ==
    /\ enabled
    /\ ret.op = "raise"
    /\ ToolKey(company_name) \in DOMAIN cache_data
    /\ lookups >= 2
    /\ file = FileOf(JsonDump(cache_data))

\* The step is a completed mutating operation: a put that stored, a get that
\* removed an entry, or a constructor whose sweep removed entries.
Mutating ==
    \/ /\ ret'.op = "put"
       /\ \E id \in KeyPutIds, r \in Results :
             normalize_company_name(id) # <<>> /\ Put(id, "q1", r)
    \/ ret'.op = "get" /\ cache_data' # cache_data
    \/ ret'.op = "init" /\ cache_data' # LoadCache(file)

\* C38: in one process with an enabled cache and no I/O failure, after every
\* completed mutating operation the live file holds the serialization of the
\* mapping in memory.
C38_FileMirrorsMapping ==
    [][(enabled' /\ phase' = "ready" /\ Mutating)
        => file' = FileOf(JsonDump(cache_data'))]_vars

\* A get has removed an expired entry and left another: the file holds the
\* mapping with the entry that is left.
C38_Witness ==
    /\ enabled
    /\ ret.op = "get"
    /\ ret.writes = 1
    /\ cache_data # EmptyCache
    /\ file = FileOf(JsonDump(cache_data))
====
